---- MODULE Spec2Model ----
(***************************************************************************)
(* Model of the Kubernetes application reconciler of                       *)
(* caas/kubernetes/provider/application (src/unnamed/part_001): Ensure,    *)
(* Exists, Delete, UpdatePorts and State of one application against a      *)
(* cluster that holds its Secret, Services, workload objects, claims and   *)
(* storage classes.                                                        *)
(***************************************************************************)
EXTENDS Integers, Sequences, FiniteSets, TLC

VARIABLES
    deploymentType, \* app.deploymentType, fixed by newApplication
    cluster,        \* the objects of the control plane the application touches
    prefixCount,    \* how many values app.randomPrefix has handed out
    result          \* what the last call did and returned

vars == <<deploymentType, cluster, prefixCount, result>>

----------------------------------------------------------------------------
(* Bounds of the model *)

\* longest filesystem list of an ApplicationConfig
MaxFilesystems == 2
\* number of values the random prefix generator can hand out
MaxPrefixes == 2
\* largest replica count set out of band
MaxReplicas == 2

----------------------------------------------------------------------------
(* Names *)

AppName == "db"
Namespace == "test"

unitContainerName == "charm"

secretName == AppName \o "-application-config"

headlessServiceName(appName) == appName \o "-endpoints"

volumeName(storageName) == AppName \o "-" \o storageName

\* pvcNameGetter of configureStorage
pvcNameGetter(volName, storageUniqueID) == volName \o "-" \o storageUniqueID

QualifiedStorageClassName(namespace, class) == namespace \o "-" \o class

\* the n-th value of app.randomPrefix
RandomPrefix(n) == "uid" \o ToString(n)

GetMountPathForFilesystem(index, appName, fs) ==
    "/var/lib/juju/storage/" \o appName \o "/" \o fs.StorageName \o "/" \o ToString(index)

----------------------------------------------------------------------------
(* Values *)

\* a nil pointer / an absent optional field; Some(x) is a set one
Nil == <<>>
Some(x) == <<x>>

NoErr == "nil"

DeploymentStateful == "stateful"
DeploymentStateless == "stateless"
DeploymentDaemon == "daemon"

KnownDeploymentTypes == {DeploymentStateful, DeploymentStateless, DeploymentDaemon}
DeploymentTypes == KnownDeploymentTypes \cup {"unknown"}

Kinds == {"statefulset", "deployment", "daemonset"}

\* the workload kind each deployment type is dispatched to
KindOf(dt) ==
    CASE dt = DeploymentStateful -> "statefulset"
      [] dt = DeploymentStateless -> "deployment"
      [] dt = DeploymentDaemon -> "daemonset"
      [] OTHER -> "none"

StorageClassNames == {"fast"}

\* KubernetesFilesystemParams: Persistent is FALSE when the attributes give
\* a plain volume source (VolumeSourceForFilesystem returns non-nil)
FilesystemParams ==
    {[StorageName |-> "data", Persistent |-> TRUE, StorageClass |-> "fast"],
     [StorageName |-> "logs", Persistent |-> FALSE, StorageClass |-> ""]}

RECURSIVE SeqsUpTo(_, _)
SeqsUpTo(S, n) ==
    IF n = 0 THEN {<<>>}
    ELSE LET shorter == SeqsUpTo(S, n - 1)
         IN shorter \cup {Append(s, x) : s \in {t \in shorter : Len(t) = n - 1}, x \in S}

\* caas.ApplicationConfig, the fields the reconciler's decisions depend on
ApplicationConfigs ==
    [Filesystems : SeqsUpTo(FilesystemParams, MaxFilesystems),
     IntroductionSecret : {"pw"}]

\* caas.ContainerConfig.Mounts of the sidecar containers of a configuration,
\* by container name
SidecarNames == {"web", "worker"}

ContainerMounts ==
    {<<>>,
     <<[StorageName |-> "data", Path |-> "/srv/data"]>>,
     <<[StorageName |-> "logs", Path |-> "/srv/logs"],
       [StorageName |-> "data", Path |-> "/srv/data"]>>}

ContainerConfigs == [SidecarNames -> ContainerMounts]

\* a configuration without sidecar containers
NoContainers == [n \in {} |-> <<>>]

NoStorageConfig == [Filesystems |-> <<>>, IntroductionSecret |-> "pw"]

ServiceTypeClusterIP == "ClusterIP"

\* caas.ServiceType values handed to UpdateService
ServiceTypes == {ServiceTypeClusterIP, "LoadBalancer"}

placeholderPorts == <<[Name |-> "placeholder", Port |-> 65535, TargetPort |-> 0]>>

\* caas.ServicePort lists handed to UpdatePorts
PortLists ==
    {<<>>,
     <<[Name |-> "http", Port |-> 80, TargetPort |-> 8080]>>,
     <<[Name |-> "http", Port |-> 80, TargetPort |-> 8080],
       [Name |-> "tls", Port |-> 443, TargetPort |-> 8443]>>}

----------------------------------------------------------------------------
(* Cluster objects *)

AbsentSecret == [present |-> FALSE, deleting |-> FALSE, data |-> ""]
AbsentService == [present |-> FALSE, deleting |-> FALSE, ports |-> <<>>, type |-> ""]
AbsentHeadless == [present |-> FALSE, deleting |-> FALSE, publishNotReady |-> FALSE]
AbsentWorkload ==
    [present |-> FALSE, deleting |-> FALSE, prefix |-> "", replicas |-> Nil,
     volumes |-> {}, claimTemplates |-> {}, mounts |-> <<>>, ports |-> Nil,
     charmPorts |-> Nil, scheduled |-> 0]

EmptyCluster ==
    [secret |-> AbsentSecret,
     service |-> AbsentService,
     headless |-> AbsentHeadless,
     workload |-> [k \in Kinds |-> AbsentWorkload],
     claims |-> {},
     storageClasses |-> {}]

----------------------------------------------------------------------------
(* The mutation batch (resources.Applier) and what applying an object does *)

ApplyOp(kind, name, obj) == [verb |-> "apply", kind |-> kind, name |-> name, obj |-> obj]
DeleteOp(kind, name) == [verb |-> "delete", kind |-> kind, name |-> name, obj |-> Nil]

\* an optional field of a patch: a nil field leaves the live value alone
Merge(staged, live) == IF staged = Nil THEN live ELSE staged

\* Apply of a workload object: create it, or patch the live one
ApplyWorkload(live, obj) ==
    [present |-> TRUE,
     deleting |-> live.deleting,
     prefix |-> obj.prefix,
     replicas |-> Merge(obj.replicas, live.replicas),
     volumes |-> obj.volumes,
     claimTemplates |-> obj.claimTemplates,
     mounts |-> obj.mounts,
     ports |-> Merge(obj.ports, live.ports),
     charmPorts |-> Merge(obj.charmPorts, live.charmPorts),
     scheduled |-> live.scheduled]

\* one staged operation carried out against the cluster
Process(c, op) ==
    IF op.verb = "delete" THEN
        CASE op.kind = "secret" -> [c EXCEPT !.secret = AbsentSecret]
          [] op.kind = "service" /\ op.name = AppName -> [c EXCEPT !.service = AbsentService]
          [] op.kind = "service" /\ op.name # AppName -> [c EXCEPT !.headless = AbsentHeadless]
          [] op.kind \in Kinds -> [c EXCEPT !.workload[op.kind] = AbsentWorkload]
          [] OTHER -> c
    ELSE
        CASE op.kind = "secret" ->
                [c EXCEPT !.secret = [present |-> TRUE, deleting |-> @.deleting,
                                      data |-> op.obj.data]]
          [] op.kind = "service" /\ op.name = AppName ->
                [c EXCEPT !.service = [present |-> TRUE, deleting |-> @.deleting,
                                       ports |-> op.obj.ports,
                                       type |-> IF "type" \in DOMAIN op.obj
                                                THEN op.obj.type ELSE @.type]]
          [] op.kind = "service" /\ op.name # AppName ->
                [c EXCEPT !.headless = [present |-> TRUE, deleting |-> @.deleting,
                                        publishNotReady |-> op.obj.publishNotReady]]
          [] op.kind \in Kinds ->
                [c EXCEPT !.workload[op.kind] = ApplyWorkload(@, op.obj)]
          [] op.kind = "claim" ->
                [c EXCEPT !.claims = {x \in @ : x.name # op.name} \cup {op.obj}]
          [] op.kind = "storageclass" ->
                [c EXCEPT !.storageClasses = @ \cup {op.name}]
          [] OTHER -> c

\* the first n staged operations carried out in order
RECURSIVE RunOps(_, _, _)
RunOps(c, ops, n) ==
    IF n = 0 THEN c ELSE Process(RunOps(c, ops, n - 1), ops[n])

\* whether the object a staged operation names is in the cluster
Targeted(c, op) ==
    CASE op.kind = "secret" -> c.secret.present
      [] op.kind = "service" /\ op.name = AppName -> c.service.present
      [] op.kind = "service" /\ op.name # AppName -> c.headless.present
      [] op.kind \in Kinds -> c.workload[op.kind].present
      [] OTHER -> FALSE

\* applier.Run as it would be if the delete of an object that is not there
\* failed like any other operation
RunDeleteMustFind(c, ops, failAt) ==
    LET missing == {i \in 1..Len(ops) : ops[i].verb = "delete" /\ ~Targeted(c, ops[i])}
        stops == {i \in 1..Len(ops) : i \in missing \/ i = failAt}
    IN IF stops = {}
       THEN [cluster |-> RunOps(c, ops, Len(ops)), err |-> NoErr]
       ELSE LET first == CHOOSE i \in stops : \A j \in stops : i <= j
            IN [cluster |-> RunOps(c, ops, first - 1),
                err |-> IF first \in missing THEN "NotFound" ELSE "api"]

\* applier.Run: the operations run in order; the one at failAt fails and
\* ends the run (failAt beyond the batch: every operation succeeds)
Run(c, ops, failAt) ==
    IF failAt > Len(ops)
    THEN [cluster |-> RunOps(c, ops, Len(ops)), err |-> NoErr]
    ELSE [cluster |-> RunOps(c, ops, failAt - 1), err |-> "api"]

----------------------------------------------------------------------------
(* Reading the cluster *)

\* resource.Get: fault makes the call fail with an error other than not-found
GetWorkload(c, kind, fault) ==
    IF fault THEN [obj |-> AbsentWorkload, err |-> "api"]
    ELSE IF ~c.workload[kind].present THEN [obj |-> AbsentWorkload, err |-> "NotFound"]
    ELSE [obj |-> c.workload[kind], err |-> NoErr]

GetSecret(c, fault) ==
    IF fault THEN [obj |-> AbsentSecret, err |-> "api"]
    ELSE IF ~c.secret.present THEN [obj |-> AbsentSecret, err |-> "NotFound"]
    ELSE [obj |-> c.secret, err |-> NoErr]

GetService(c, fault) ==
    IF fault THEN [obj |-> AbsentService, err |-> "api"]
    ELSE IF ~c.service.present THEN [obj |-> AbsentService, err |-> "NotFound"]
    ELSE [obj |-> c.service, err |-> NoErr]

----------------------------------------------------------------------------
(* Storage resolution *)

\* filesystemToVolumeInfo as it would be if it looked for the qualified class
\* before the exactly-named one
filesystemToVolumeInfoQualifiedFirst(name, fs, storageClasses, storageUniqueID) ==
    IF ~fs.Persistent
    THEN [vol |-> Some(name), pvc |-> Nil, sc |-> Nil]
    ELSE LET paramsName == pvcNameGetter(name, storageUniqueID)
             qualifiedStorageClassName ==
                 QualifiedStorageClassName(Namespace, fs.StorageClass)
         IN IF qualifiedStorageClassName \in storageClasses
            THEN [vol |-> Nil,
                  pvc |-> Some([name |-> paramsName, class |-> qualifiedStorageClassName,
                                storage |-> fs.StorageName]),
                  sc |-> Nil]
            ELSE IF fs.StorageClass \in storageClasses
            THEN [vol |-> Nil,
                  pvc |-> Some([name |-> paramsName, class |-> fs.StorageClass,
                                storage |-> fs.StorageName]),
                  sc |-> Nil]
            ELSE [vol |-> Nil,
                  pvc |-> Some([name |-> paramsName, class |-> qualifiedStorageClassName,
                                storage |-> fs.StorageName]),
                  sc |-> Some(qualifiedStorageClassName)]

\* filesystemToVolumeInfo as it would be if it did not return once it had
\* built the volume of a plain volume source
filesystemToVolumeInfoNoEarlyReturn(name, fs, storageClasses, storageUniqueID) ==
    LET paramsName == pvcNameGetter(name, storageUniqueID)
        qualifiedStorageClassName == QualifiedStorageClassName(Namespace, fs.StorageClass)
        known == IF fs.StorageClass \in storageClasses THEN Some(fs.StorageClass)
                 ELSE IF qualifiedStorageClassName \in storageClasses
                 THEN Some(qualifiedStorageClassName)
                 ELSE Nil
    IN [vol |-> IF fs.Persistent THEN Nil ELSE Some(name),
        pvc |-> Some([name |-> paramsName,
                      class |-> IF known # Nil THEN known[1] ELSE qualifiedStorageClassName,
                      storage |-> fs.StorageName]),
        sc |-> IF known # Nil THEN Nil ELSE Some(qualifiedStorageClassName)]

\* the (volume, claim, new storage class) triple of one filesystem
filesystemToVolumeInfo(name, fs, storageClasses, storageUniqueID) ==
    IF ~fs.Persistent
    THEN [vol |-> Some(name), pvc |-> Nil, sc |-> Nil]
    ELSE LET paramsName == pvcNameGetter(name, storageUniqueID)
             qualifiedStorageClassName ==
                 QualifiedStorageClassName(Namespace, fs.StorageClass)
         IN IF fs.StorageClass \in storageClasses
            THEN [vol |-> Nil,
                  pvc |-> Some([name |-> paramsName, class |-> fs.StorageClass,
                                storage |-> fs.StorageName]),
                  sc |-> Nil]
            ELSE IF qualifiedStorageClassName \in storageClasses
            THEN [vol |-> Nil,
                  pvc |-> Some([name |-> paramsName, class |-> qualifiedStorageClassName,
                                storage |-> fs.StorageName]),
                  sc |-> Nil]
            ELSE [vol |-> Nil,
                  pvc |-> Some([name |-> paramsName, class |-> qualifiedStorageClassName,
                                storage |-> fs.StorageName]),
                  sc |-> Some(qualifiedStorageClassName)]

\* what configureStorage has built so far: the names seen, the known storage
\* classes, the operations staged by the handlers, the pod spec's and
\* workload's storage parts, and the arguments of the calls it made to each of
\* the four handlers it was given
StorageStartWith(storageClasses, containers) ==
    [err |-> NoErr, fsNames |-> {}, storageClassMap |-> storageClasses, ops |-> <<>>,
     volumes |-> {}, claimTemplates |-> {}, mounts |-> <<>>,
     containers |-> containers,
     sidecarMounts |-> [n \in DOMAIN containers |-> <<>>],
     calls |-> [handleVolume |-> <<>>, handleStorageClass |-> <<>>,
                handlePVC |-> <<>>, handleVolumeMount |-> <<>>]]

\* the same for a configuration without sidecar containers
StorageStart(storageClasses) == StorageStartWith(storageClasses, NoContainers)

\* handleVolume: PushUniqueVolume on the pod spec
handleVolume(acc, volName) == [acc EXCEPT !.volumes = @ \cup {volName}]

\* handleStorageClass stages the class; configureStorage then records it
handleStorageClass(acc, sc) ==
    [acc EXCEPT !.ops = Append(@, ApplyOp("storageclass", sc, [name |-> sc])),
                !.storageClassMap = @ \cup {sc}]

\* the claim handler of the StatefulSet case: a volume claim template
handlePVCForStatefulSet(acc, pvc) == [acc EXCEPT !.claimTemplates = @ \cup {pvc}]

\* handlePVCForStatelessResource: a standalone claim and a pod volume for it
handlePVCForStatelessResource(acc, pvc) ==
    handleVolume([acc EXCEPT !.ops = Append(@, ApplyOp("claim", pvc.name, pvc))], pvc.name)

\* the copies of a mount a sidecar gets: one for each of its declared mounts
\* of the storage name, at the declared path
MountCopies(declared, storageName, m) ==
    LET matching == SelectSeq(declared, LAMBDA d : d.StorageName = storageName)
    IN [i \in 1..Len(matching) |-> [m EXCEPT !.MountPath = matching[i].Path]]

\* handleVolumeMount as it would be if it did not compare the storage names
handleVolumeMountAnyStorage(acc, storageName, m) ==
    [acc EXCEPT
       !.mounts = Append(@, m),
       !.sidecarMounts =
           [n \in DOMAIN @ |->
                @[n] \o [i \in 1..Len(acc.containers[n]) |->
                             [m EXCEPT !.MountPath = acc.containers[n][i].Path]]]]

\* handleVolumeMount: the mount goes to the charm container as it is, and to
\* each other container once for each of its declared mounts of the storage
\* name, at the declared path
handleVolumeMount(acc, storageName, m) ==
    [acc EXCEPT
       !.mounts = Append(@, m),
       !.sidecarMounts =
           [n \in DOMAIN @ |-> @[n] \o MountCopies(acc.containers[n], storageName, m)]]

\* the non-nil parts of the triple go through the handlers, in the order
\* volume, storage class, claim; the resulting mount goes to handleVolumeMount
routeVolume(acc, info) ==
    IF info.vol # Nil
    THEN handleVolume([acc EXCEPT !.calls.handleVolume = Append(@, info.vol[1])],
                      info.vol[1])
    ELSE acc

routeStorageClass(acc, info) ==
    IF info.sc # Nil
    THEN handleStorageClass(
             [acc EXCEPT !.calls.handleStorageClass = Append(@, info.sc[1])],
             info.sc[1])
    ELSE acc

\* the claim routing as it would be if every claim went the standalone way
routeClaimStandalone(acc, info, stateful) ==
    IF info.pvc = Nil THEN acc
    ELSE handlePVCForStatelessResource(
             [acc EXCEPT !.calls.handlePVC = Append(@, info.pvc[1])], info.pvc[1])

\* the claim goes to the claim handler Ensure chose for the deployment type
routeClaim(acc, info, stateful) ==
    IF info.pvc = Nil THEN acc
    ELSE IF stateful
    THEN handlePVCForStatefulSet(
             [acc EXCEPT !.calls.handlePVC = Append(@, info.pvc[1])], info.pvc[1])
    ELSE handlePVCForStatelessResource(
             [acc EXCEPT !.calls.handlePVC = Append(@, info.pvc[1])], info.pvc[1])

mountOf(info, mountPath) ==
    [Name |-> IF info.pvc # Nil THEN info.pvc[1].name ELSE info.vol[1],
     MountPath |-> mountPath]

routeVolumeMount(acc, storageName, m) ==
    handleVolumeMount([acc EXCEPT !.calls.handleVolumeMount = Append(@, m)],
                      storageName, m)

\* the handlers as they would run if the claim came before the storage class
routeVolumeInfoClaimFirst(acc, info, storageName, mountPath, stateful) ==
    routeVolumeMount(
        routeStorageClass(routeClaim(routeVolume(acc, info), info, stateful), info),
        storageName, mountOf(info, mountPath))

routeVolumeInfo(acc, info, storageName, mountPath, stateful) ==
    routeVolumeMount(
        routeClaim(routeStorageClass(routeVolume(acc, info), info), info, stateful),
        storageName, mountOf(info, mountPath))

\* the iteration as it would be if it counted the filesystems from one
configureFilesystemFromOne(acc, index, fs, storageUniqueID, stateful) ==
    routeVolumeInfo(
        [acc EXCEPT !.fsNames = @ \cup {fs.StorageName}],
        filesystemToVolumeInfo(volumeName(fs.StorageName), fs, acc.storageClassMap,
                               storageUniqueID),
        fs.StorageName,
        GetMountPathForFilesystem(index + 1, AppName, fs),
        stateful)

\* one iteration of configureStorage's loop over the filesystems
configureFilesystem(acc, index, fs, storageUniqueID, stateful) ==
    routeVolumeInfo(
        [acc EXCEPT !.fsNames = @ \cup {fs.StorageName}],
        filesystemToVolumeInfo(volumeName(fs.StorageName), fs, acc.storageClassMap,
                               storageUniqueID),
        fs.StorageName,
        GetMountPathForFilesystem(index, AppName, fs),
        stateful)

RECURSIVE configureStorageFrom(_, _, _, _, _)
configureStorageFrom(acc, i, filesystems, storageUniqueID, stateful) ==
    IF i > Len(filesystems) THEN acc
    ELSE IF filesystems[i].StorageName \in acc.fsNames
    THEN [acc EXCEPT !.err = "NotValid"]
    ELSE configureStorageFrom(
             configureFilesystem(acc, i - 1, filesystems[i], storageUniqueID, stateful),
             i + 1, filesystems, storageUniqueID, stateful)

\* configureStorage with the handlers of an Ensure whose configuration has
\* the given sidecar containers
configureStorageWith(containers, storageUniqueID, filesystems, storageClasses, stateful) ==
    configureStorageFrom(StorageStartWith(storageClasses, containers), 1, filesystems,
                         storageUniqueID, stateful)

configureStorage(storageUniqueID, filesystems, storageClasses, stateful) ==
    configureStorageFrom(StorageStart(storageClasses), 1, filesystems,
                         storageUniqueID, stateful)

----------------------------------------------------------------------------
(* Ensure *)

\* the collaborator call of Ensure that fails, if one does
EnsureFaults ==
    {"none", "service.get", "service.apply", "storageclass.list", "headless.apply",
     "workload.get", "randomPrefix"}

\* where Ensure has got to: the cluster after its direct writes, the batch
\* staged so far, the error it returns, whether it goes on to run the batch,
\* and the storage-unique prefix it resolved
Plan(c, ops, err, context, prefix, generated) ==
    [cluster |-> c, ops |-> ops, err |-> err, context |-> context,
     prefix |-> prefix, generated |-> generated]

\* getStorageUniqPrefix as it would be if it never read the annotation
getStorageUniqPrefixAlwaysRandom(got, n, fault) ==
    IF got.err # NoErr /\ got.err # "NotFound"
    THEN [id |-> "", generated |-> FALSE, err |-> got.err]
    ELSE IF fault
    THEN [id |-> "", generated |-> TRUE, err |-> "api"]
    ELSE [id |-> RandomPrefix(n + 1), generated |-> TRUE, err |-> NoErr]

\* the prefix annotation of the live workload, else a fresh random one
getStorageUniqPrefix(got, n, fault) ==
    IF got.err = NoErr /\ got.obj.prefix # ""
    THEN [id |-> got.obj.prefix, generated |-> FALSE, err |-> NoErr]
    ELSE IF got.err # NoErr /\ got.err # "NotFound"
    THEN [id |-> "", generated |-> FALSE, err |-> got.err]
    ELSE IF fault
    THEN [id |-> "", generated |-> TRUE, err |-> "api"]
    ELSE [id |-> RandomPrefix(n + 1), generated |-> TRUE, err |-> NoErr]

\* configureDefaultService as it would be if it applied the service it built
\* whether or not Get found one
configureDefaultServiceAlways(c, fault) ==
    IF fault \in {"service.get", "service.apply"} THEN [cluster |-> c, err |-> "api"]
    ELSE [cluster |-> Process(c, ApplyOp("service", AppName,
                                         [ports |-> placeholderPorts,
                                          type |-> ServiceTypeClusterIP])),
          err |-> NoErr]

\* the default service is written at once, and only when Get finds none
configureDefaultService(c, fault) ==
    IF fault = "service.get" THEN [cluster |-> c, err |-> "api"]
    ELSE IF ~c.service.present
    THEN IF fault = "service.apply" THEN [cluster |-> c, err |-> "api"]
         ELSE [cluster |-> Process(c, ApplyOp("service", AppName,
                                              [ports |-> placeholderPorts,
                                               type |-> ServiceTypeClusterIP])),
               err |-> NoErr]
    ELSE [cluster |-> c, err |-> NoErr]

\* configureHeadlessService as it would be if, like configureDefaultService,
\* it left a service that is there alone
configureHeadlessServiceOnce(c, fault) ==
    IF c.headless.present THEN [cluster |-> c, err |-> NoErr]
    ELSE IF fault = "headless.apply" THEN [cluster |-> c, err |-> "api"]
    ELSE [cluster |-> Process(c, ApplyOp("service", headlessServiceName(AppName),
                                         [ports |-> <<>>, publishNotReady |-> TRUE])),
          err |-> NoErr]

\* the headless service is written at once, on every call
configureHeadlessService(c, fault) ==
    IF fault = "headless.apply" THEN [cluster |-> c, err |-> "api"]
    ELSE [cluster |-> Process(c, ApplyOp("service", headlessServiceName(AppName),
                                         [ports |-> <<>>, publishNotReady |-> TRUE])),
          err |-> NoErr]

\* numPods as it would be if it ignored whether the workload was found
numPodsAlways(exists) == Some(1)

\* numPods: one replica for a workload that was not found, else nil
numPods(exists) == IF ~exists THEN Some(1) ELSE Nil

\* the staged workload as it would be without the storage-unique-prefix
\* annotation
StageWorkloadNoAnnotation(c, ops, kind, p, replicas, st, volumes, claimTemplates) ==
    IF st.err # NoErr
    THEN Plan(c, ops \o st.ops, st.err, "", p.id, p.generated)
    ELSE Plan(c,
              Append(ops \o st.ops,
                     ApplyOp(kind, AppName,
                             [prefix |-> "", replicas |-> replicas, volumes |-> volumes,
                              claimTemplates |-> claimTemplates, mounts |-> st.mounts,
                              ports |-> Nil, charmPorts |-> Nil])),
              NoErr, "", p.id, p.generated)

\* the workload object staged last, unless configureStorage failed; volumes
\* are the pod volumes the object carries
StageWorkload(c, ops, kind, p, replicas, st, volumes, claimTemplates) ==
    IF st.err # NoErr
    THEN Plan(c, ops \o st.ops, st.err, "", p.id, p.generated)
    ELSE Plan(c,
              Append(ops \o st.ops,
                     ApplyOp(kind, AppName,
                             [prefix |-> p.id, replicas |-> replicas, volumes |-> volumes,
                              claimTemplates |-> claimTemplates, mounts |-> st.mounts,
                              ports |-> Nil, charmPorts |-> Nil])),
              NoErr, "", p.id, p.generated)

\* the StatefulSet: its pod spec is copied from podSpec before configureStorage
\* runs, so it shares the containers (and their mounts) but not the volume
\* list that handleVolume grows; claims become volume claim templates
StageStatefulSet(c, ops, p, replicas, st) ==
    StageWorkload(c, ops, "statefulset", p, replicas, st, {}, st.claimTemplates)

\* the Deployment and the DaemonSet are built after configureStorage
StageStateless(c, ops, kind, p, replicas, st) ==
    StageWorkload(c, ops, kind, p, replicas, st, st.volumes, {})

\* from the resolved prefix on
WithPrefix(c, ops, kind, p, replicas, storageClasses, cfg) ==
    IF p.err # NoErr
    THEN Plan(c, ops, p.err, "", "", p.generated)
    ELSE IF kind = "statefulset"
    THEN StageStatefulSet(c, ops, p, replicas,
                          configureStorage(p.id, cfg.Filesystems, storageClasses, TRUE))
    ELSE StageStateless(c, ops, kind, p, replicas,
                        configureStorage(p.id, cfg.Filesystems, storageClasses, FALSE))

\* from the Get of the live StatefulSet or Deployment on
WithLive(c, ops, kind, got, storageClasses, cfg, fault, n) ==
    IF got.err # NoErr /\ got.err # "NotFound"
    THEN Plan(c, ops, got.err, "", "", FALSE)
    ELSE WithPrefix(c, ops, kind, getStorageUniqPrefix(got, n, fault = "randomPrefix"),
                    numPods(got.err # "NotFound"), storageClasses, cfg)

AfterHeadless(h, c, ops, storageClasses, cfg, fault, n) ==
    IF h.err # NoErr
    THEN Plan(c, ops, h.err, "creating or updating headless service", "", FALSE)
    ELSE WithLive(h.cluster, ops, "statefulset",
                  GetWorkload(h.cluster, "statefulset", fault = "workload.get"),
                  storageClasses, cfg, fault, n)

\* the Stateful case as it would be without the headless service
EnsureStatefulNoHeadless(c, ops, storageClasses, cfg, fault, n) ==
    WithLive(c, ops, "statefulset",
             GetWorkload(c, "statefulset", fault = "workload.get"),
             storageClasses, cfg, fault, n)

\* case caas.DeploymentStateful
EnsureStateful(c, ops, storageClasses, cfg, fault, n) ==
    AfterHeadless(configureHeadlessService(c, fault), c, ops, storageClasses, cfg, fault, n)

\* case caas.DeploymentStateless
EnsureStateless(c, ops, storageClasses, cfg, fault, n) ==
    WithLive(c, ops, "deployment", GetWorkload(c, "deployment", fault = "workload.get"),
             storageClasses, cfg, fault, n)

\* case caas.DeploymentDaemon: the Get happens inside getStorageUniqPrefix, and
\* the DaemonSet carries no replica count
EnsureDaemon(c, ops, storageClasses, cfg, fault, n) ==
    WithPrefix(c, ops, "daemonset",
               getStorageUniqPrefix(GetWorkload(c, "daemonset", fault = "workload.get"),
                                    n, fault = "randomPrefix"),
               Nil, storageClasses, cfg)

\* the switch on the deployment type as it would be without its default case
EnsureSwitchNoDefault(c, dt, ops, cfg, fault, n) ==
    IF fault = "storageclass.list"
    THEN Plan(c, ops, "api", "", "", FALSE)
    ELSE CASE dt = DeploymentStateful ->
                 EnsureStateful(c, ops, c.storageClasses, cfg, fault, n)
           [] dt = DeploymentStateless ->
                 EnsureStateless(c, ops, c.storageClasses, cfg, fault, n)
           [] dt = DeploymentDaemon ->
                 EnsureDaemon(c, ops, c.storageClasses, cfg, fault, n)
           [] OTHER -> Plan(c, ops, NoErr, "", "", FALSE)

\* the switch on the deployment type
EnsureSwitch(c, dt, ops, cfg, fault, n) ==
    IF fault = "storageclass.list"
    THEN Plan(c, ops, "api", "", "", FALSE)
    ELSE CASE dt = DeploymentStateful ->
                 EnsureStateful(c, ops, c.storageClasses, cfg, fault, n)
           [] dt = DeploymentStateless ->
                 EnsureStateless(c, ops, c.storageClasses, cfg, fault, n)
           [] dt = DeploymentDaemon ->
                 EnsureDaemon(c, ops, c.storageClasses, cfg, fault, n)
           [] OTHER ->
                 Plan(c, ops, "NotSupported", "unknown deployment type", "", FALSE)

AfterDefaultService(svc, dt, ops, cfg, fault, n) ==
    IF svc.err # NoErr
    THEN Plan(svc.cluster, ops, svc.err, "ensuring the default service", "", FALSE)
    ELSE EnsureSwitch(svc.cluster, dt, ops, cfg, fault, n)

\* Ensure up to its last line: everything but the run of the batch
EnsurePlan(c, dt, cfg, fault, n) ==
    AfterDefaultService(
        configureDefaultService(c, fault), dt,
        <<ApplyOp("secret", secretName, [data |-> cfg.IntroductionSecret])>>,
        cfg, fault, n)

----------------------------------------------------------------------------
(* Exists *)

NoState == [Exists |-> FALSE, Terminating |-> FALSE]

\* the xxxExists helpers as they would be if they took every error for not-found
ExistsOfAnyErrorAbsent(got) ==
    IF got.err # NoErr THEN [exists |-> FALSE, terminating |-> FALSE, err |-> NoErr]
    ELSE [exists |-> TRUE, terminating |-> got.obj.deleting, err |-> NoErr]

\* the (exists, terminating, err) answer every xxxExists helper derives from Get
ExistsOf(got) ==
    IF got.err = "NotFound" THEN [exists |-> FALSE, terminating |-> FALSE, err |-> NoErr]
    ELSE IF got.err # NoErr THEN [exists |-> FALSE, terminating |-> FALSE, err |-> got.err]
    ELSE [exists |-> TRUE, terminating |-> got.obj.deleting, err |-> NoErr]

statefulSetExists(c, fault) == ExistsOf(GetWorkload(c, "statefulset", fault))
deploymentExists(c, fault) == ExistsOf(GetWorkload(c, "deployment", fault))
daemonSetExists(c, fault) == ExistsOf(GetWorkload(c, "daemonset", fault))
secretExists(c, fault) == ExistsOf(GetSecret(c, fault))
serviceExists(c, fault) == ExistsOf(GetService(c, fault))

\* the checks table as it would be without the secret row
ExistsChecksNoSecret(dt) ==
    <<[label |-> KindOf(dt), forceTerminating |-> FALSE],
      [label |-> "service", forceTerminating |-> FALSE]>>

\* the checks table as it would be if the primary workload forced terminating
ExistsChecksForcePrimary(dt) ==
    <<[label |-> KindOf(dt), forceTerminating |-> TRUE],
      [label |-> "secret", forceTerminating |-> FALSE],
      [label |-> "service", forceTerminating |-> FALSE]>>

\* the checks table of Exists, its first row filled in by the switch
ExistsChecks(dt) ==
    <<[label |-> KindOf(dt), forceTerminating |-> FALSE],
      [label |-> "secret", forceTerminating |-> FALSE],
      [label |-> "service", forceTerminating |-> FALSE]>>

RunCheck(label, c, fault) ==
    CASE label = "statefulset" -> statefulSetExists(c, fault)
      [] label = "deployment" -> deploymentExists(c, fault)
      [] label = "daemonset" -> daemonSetExists(c, fault)
      [] label = "secret" -> secretExists(c, fault)
      [] OTHER -> serviceExists(c, fault)

\* the loop as it would be if a terminating resource did not end it
RECURSIVE ExistsLoopNoShortCircuit(_, _, _, _, _)
ExistsLoopNoShortCircuit(checks, i, state, c, faults) ==
    IF i > Len(checks)
    THEN [state |-> state, err |-> NoErr, context |-> "", checked |-> Len(checks)]
    ELSE LET r == RunCheck(checks[i].label, c, checks[i].label \in faults)
         IN IF r.err # NoErr
            THEN [state |-> NoState, err |-> r.err,
                  context |-> checks[i].label \o " resource check", checked |-> i]
            ELSE IF ~r.exists
            THEN ExistsLoopNoShortCircuit(checks, i + 1, state, c, faults)
            ELSE ExistsLoopNoShortCircuit(
                     checks, i + 1,
                     [Exists |-> TRUE,
                      Terminating |-> state.Terminating \/ r.terminating
                                          \/ checks[i].forceTerminating],
                     c, faults)

\* the loop over the checks, from check i on, with the state gathered so far;
\* faults are the labels whose Get fails
RECURSIVE ExistsLoop(_, _, _, _, _)
ExistsLoop(checks, i, state, c, faults) ==
    IF i > Len(checks)
    THEN [state |-> state, err |-> NoErr, context |-> "", checked |-> Len(checks)]
    ELSE LET r == RunCheck(checks[i].label, c, checks[i].label \in faults)
         IN IF r.err # NoErr
            THEN [state |-> NoState, err |-> r.err,
                  context |-> checks[i].label \o " resource check", checked |-> i]
            ELSE IF ~r.exists
            THEN ExistsLoop(checks, i + 1, state, c, faults)
            ELSE IF r.terminating \/ checks[i].forceTerminating
            THEN [state |-> [Exists |-> TRUE, Terminating |-> TRUE], err |-> NoErr,
                  context |-> "", checked |-> i]
            ELSE ExistsLoop(checks, i + 1, [state EXCEPT !.Exists = TRUE], c, faults)

ExistsResult(c, dt, faults) ==
    IF dt \notin KnownDeploymentTypes
    THEN [state |-> NoState, err |-> "NotSupported",
          context |-> "unknown deployment type", checked |-> 0]
    ELSE ExistsLoop(ExistsChecks(dt), 1, NoState, c, faults)

----------------------------------------------------------------------------
(* Delete *)

\* Delete as it would be if its switch had no default case
DeletePlanNoDefault(dt) ==
    LET tail == <<DeleteOp("service", AppName), DeleteOp("secret", secretName)>>
    IN CASE dt = DeploymentStateful ->
              [err |-> NoErr,
               ops |-> <<DeleteOp("statefulset", AppName),
                         DeleteOp("service", headlessServiceName(AppName))>> \o tail]
         [] dt = DeploymentStateless ->
              [err |-> NoErr, ops |-> <<DeleteOp("deployment", AppName)>> \o tail]
         [] dt = DeploymentDaemon ->
              [err |-> NoErr, ops |-> <<DeleteOp("daemonset", AppName)>> \o tail]
         [] OTHER -> [err |-> NoErr, ops |-> tail]

\* Delete as it would be if it left the default service behind
DeletePlanNoService(dt) ==
    LET tail == <<DeleteOp("secret", secretName)>>
    IN CASE dt = DeploymentStateful ->
              [err |-> NoErr,
               ops |-> <<DeleteOp("statefulset", AppName),
                         DeleteOp("service", headlessServiceName(AppName))>> \o tail]
         [] dt = DeploymentStateless ->
              [err |-> NoErr, ops |-> <<DeleteOp("deployment", AppName)>> \o tail]
         [] dt = DeploymentDaemon ->
              [err |-> NoErr, ops |-> <<DeleteOp("daemonset", AppName)>> \o tail]
         [] OTHER -> [err |-> "NotSupported", ops |-> <<>>]

\* Delete as it would be if it left the secret behind
DeletePlanNoSecret(dt) ==
    LET tail == <<DeleteOp("service", AppName)>>
    IN CASE dt = DeploymentStateful ->
              [err |-> NoErr,
               ops |-> <<DeleteOp("statefulset", AppName),
                         DeleteOp("service", headlessServiceName(AppName))>> \o tail]
         [] dt = DeploymentStateless ->
              [err |-> NoErr, ops |-> <<DeleteOp("deployment", AppName)>> \o tail]
         [] dt = DeploymentDaemon ->
              [err |-> NoErr, ops |-> <<DeleteOp("daemonset", AppName)>> \o tail]
         [] OTHER -> [err |-> "NotSupported", ops |-> <<>>]

\* the batch Delete stages; err is set when the switch rejects the type
DeletePlan(dt) ==
    LET tail == <<DeleteOp("service", AppName), DeleteOp("secret", secretName)>>
    IN CASE dt = DeploymentStateful ->
              [err |-> NoErr,
               ops |-> <<DeleteOp("statefulset", AppName),
                         DeleteOp("service", headlessServiceName(AppName))>> \o tail]
         [] dt = DeploymentStateless ->
              [err |-> NoErr, ops |-> <<DeleteOp("deployment", AppName)>> \o tail]
         [] dt = DeploymentDaemon ->
              [err |-> NoErr, ops |-> <<DeleteOp("daemonset", AppName)>> \o tail]
         [] OTHER -> [err |-> "NotSupported", ops |-> <<>>]

----------------------------------------------------------------------------
(* UpdatePorts *)

\* the ports of PortLists are within int32, which int32(p.Port) leaves as they are
convertServicePort(p) ==
    [Name |-> p.Name, Port |-> p.Port, TargetPort |-> p.TargetPort]

convertContainerPort(p) == [Name |-> p.Name, ContainerPort |-> p.TargetPort]

\* the loops that convert a port list element by element
convertServicePorts(ports) == [i \in 1..Len(ports) |-> convertServicePort(ports[i])]

convertContainerPorts(ports) == [i \in 1..Len(ports) |-> convertContainerPort(ports[i])]

\* updateContainerPorts as it would be if it did not skip the charm container
updateContainerPortsAll(c, dt, ops, ports, fault) ==
    LET got == GetWorkload(c, KindOf(dt), fault)
        containerPorts == convertContainerPorts(ports)
    IN IF dt \notin KnownDeploymentTypes THEN [err |-> "NotSupported", ops |-> ops]
       ELSE IF got.err # NoErr THEN [err |-> got.err, ops |-> ops]
       ELSE [err |-> NoErr,
             ops |-> Append(ops, ApplyOp(KindOf(dt), AppName,
                                         [got.obj EXCEPT !.ports = Some(containerPorts),
                                                         !.charmPorts = Some(containerPorts)]))]

\* updateContainerPorts as it would be if it went on without the workload
\* when it cannot have it
updateContainerPortsLenient(c, dt, ops, ports, fault) ==
    LET got == GetWorkload(c, KindOf(dt), fault)
        containerPorts == convertContainerPorts(ports)
    IN IF dt \notin KnownDeploymentTypes \/ got.err # NoErr
       THEN [err |-> NoErr, ops |-> ops]
       ELSE [err |-> NoErr,
             ops |-> Append(ops, ApplyOp(KindOf(dt), AppName,
                                         [got.obj EXCEPT !.ports = Some(containerPorts)]))]

\* updateContainerPorts: the live workload of the type with the ports of every
\* container but the charm container (ports; the charm container's are
\* charmPorts) rewritten, staged for apply
updateContainerPorts(c, dt, ops, ports, fault) ==
    LET got == GetWorkload(c, KindOf(dt), fault)
        containerPorts == convertContainerPorts(ports)
    IN IF dt \notin KnownDeploymentTypes THEN [err |-> "NotSupported", ops |-> ops]
       ELSE IF got.err # NoErr THEN [err |-> got.err, ops |-> ops]
       ELSE [err |-> NoErr,
             ops |-> Append(ops, ApplyOp(KindOf(dt), AppName,
                                         [got.obj EXCEPT !.ports = Some(containerPorts)]))]

\* UpdateService up to its run of the batch; faults are the Gets that fail
UpdateServicePlan(c, dt, param, faults) ==
    LET svc == GetService(c, "service" \in faults)
        svcPorts == convertServicePorts(param.Ports)
        ops == <<ApplyOp("service", AppName, [ports |-> svcPorts, type |-> param.Type])>>
    IN IF svc.err # NoErr
       THEN [err |-> svc.err, context |-> "getting existing service", ops |-> <<>>]
       ELSE LET u == updateContainerPorts(c, dt, ops, svcPorts, "workload" \in faults)
            IN [err |-> u.err, context |-> "", ops |-> u.ops]

\* UpdatePorts up to its run of the batch; faults are the Gets that fail
UpdatePortsPlan(c, dt, ports, withContainerPorts, faults) ==
    LET svc == GetService(c, "service" \in faults)
        svcPorts == convertServicePorts(ports)
        ops == <<ApplyOp("service", AppName, [ports |-> svcPorts])>>
    IN IF svc.err # NoErr
       THEN [err |-> svc.err, context |-> "getting existing service", ops |-> <<>>]
       ELSE IF withContainerPorts
       THEN LET u == updateContainerPorts(c, dt, ops, svcPorts, "workload" \in faults)
            IN [err |-> u.err, context |-> "", ops |-> u.ops]
       ELSE [err |-> NoErr, context |-> "", ops |-> ops]

----------------------------------------------------------------------------
(* State *)

\* pod names, in lexicographic order
PodNames == <<"db-0", "db-1", "db-2">>

Rank(name) == CHOOSE i \in 1..Len(PodNames) : PodNames[i] = name

\* sort.Strings
RECURSIVE Insert(_, _)
Insert(sorted, name) ==
    IF sorted = <<>> THEN <<name>>
    ELSE IF Rank(name) <= Rank(Head(sorted)) THEN <<name>> \o sorted
    ELSE <<Head(sorted)>> \o Insert(Tail(sorted), name)

RECURSIVE SortStrings(_)
SortStrings(s) == IF s = <<>> THEN <<>> ELSE Insert(SortStrings(Tail(s)), Head(s))

Page(items, remaining, continue) ==
    [items |-> items, remaining |-> remaining, continue |-> continue]

\* the answers of the pod list call, as the pages the server serves in turn
PodListings ==
    {<<Page(<<>>, Nil, "")>>,
     <<Page(<<"db-1", "db-0">>, Nil, "")>>,
     <<Page(<<"db-2">>, Some(2), "t1"), Page(<<"db-0">>, Some(1), "t2"),
       Page(<<"db-1">>, Some(0), "")>>,
     <<Page(<<"db-1">>, Some(0), "t1"), Page(<<"db-0">>, Nil, "")>>}

\* Pods(...).List with a continue token: the first page, or the page after the
\* one that handed the token out
ListPods(listing, next) ==
    IF next = "" THEN listing[1]
    ELSE listing[1 + CHOOSE i \in 1..Len(listing) : listing[i].continue = next]

\* the pagination loop as it would be if it stopped after the first page
PodLoopFirstPage(listing, next, replicas) == replicas \o ListPods(listing, next).items

\* the pagination loop of State
RECURSIVE PodLoop(_, _, _)
PodLoop(listing, next, replicas) ==
    LET res == ListPods(listing, next)
        got == replicas \o res.items
    IN IF res.remaining = Nil \/ res.remaining = Some(0) THEN got
       ELSE PodLoop(listing, res.continue, got)

\* the switch of State as it would be if it took a nil replica count for one
DesiredReplicasDefaulted(c, dt, fault) ==
    LET got == GetWorkload(c, KindOf(dt), fault)
    IN IF dt \notin KnownDeploymentTypes
       THEN [err |-> "NotSupported", context |-> "unknown deployment type", desired |-> 0]
       ELSE IF got.err # NoErr
       THEN [err |-> got.err, context |-> "", desired |-> 0]
       ELSE IF dt = DeploymentDaemon
       THEN [err |-> NoErr, context |-> "", desired |-> got.obj.scheduled]
       ELSE IF got.obj.replicas = Nil
       THEN [err |-> NoErr, context |-> "", desired |-> 1]
       ELSE [err |-> NoErr, context |-> "", desired |-> got.obj.replicas[1]]

\* the desired replica count of the switch of State
DesiredReplicas(c, dt, fault) ==
    LET got == GetWorkload(c, KindOf(dt), fault)
    IN IF dt \notin KnownDeploymentTypes
       THEN [err |-> "NotSupported", context |-> "unknown deployment type", desired |-> 0]
       ELSE IF got.err # NoErr
       THEN [err |-> got.err, context |-> "", desired |-> 0]
       ELSE IF dt = DeploymentDaemon
       THEN [err |-> NoErr, context |-> "", desired |-> got.obj.scheduled]
       ELSE IF got.obj.replicas = Nil
       THEN [err |-> "error", context |-> "missing replicas", desired |-> 0]
       ELSE [err |-> NoErr, context |-> "", desired |-> got.obj.replicas[1]]

\* State; faults are the calls that fail, listed is whether the pod list call
\* was made
StateResult(c, dt, faults, listing) ==
    LET d == DesiredReplicas(c, dt, "workload" \in faults)
    IN IF d.err # NoErr
       THEN [err |-> d.err, context |-> d.context, desired |-> 0, replicas |-> <<>>,
             listed |-> FALSE]
       ELSE IF "pods" \in faults
       THEN [err |-> "api", context |-> "", desired |-> 0, replicas |-> <<>>,
             listed |-> TRUE]
       ELSE [err |-> NoErr, context |-> "", desired |-> d.desired,
             replicas |-> SortStrings(PodLoop(listing, "", <<>>)), listed |-> TRUE]

----------------------------------------------------------------------------
(* The calls and the environment *)

\* what a call reports: the call and its arguments (the Gets that failed; for
\* State, the pages the pod list call served; for a batch, whether one of its
\* operations was made to fail), the error returned, the batch it staged and whether it ran it, and
\* the values it returned
Idle ==
    [op |-> "none", err |-> NoErr, context |-> "", cfg |-> Nil,
     staged |-> <<>>, ran |-> FALSE, prefix |-> "", generated |-> FALSE,
     found |-> FALSE, again |-> FALSE, retry |-> FALSE, injected |-> FALSE,
     faults |-> {},
     state |-> NoState, checked |-> 0, desired |-> 0, replicas |-> <<>>,
     listing |-> <<>>, listed |-> FALSE,
     ports |-> <<>>, withContainerPorts |-> FALSE, serviceType |-> ""]

\* longest batch Ensure can stage: the secret, a class and a claim for each
\* filesystem, the workload
MaxBatch == 2 * MaxFilesystems + 2

PrimaryPresent(c, dt) ==
    dt \in KnownDeploymentTypes /\ c.workload[KindOf(dt)].present

\* the end of a call that stages a batch: the batch runs unless the call
\* failed before, and the call reports what it did
Finish(op, plan, run, failAt) ==
    /\ failAt <= (IF plan.err = NoErr THEN Len(plan.ops) + 1 ELSE 1)
    /\ cluster' = IF plan.err = NoErr THEN run.cluster ELSE plan.cluster
    /\ result' = [op EXCEPT !.err = IF plan.err = NoErr THEN run.err ELSE plan.err,
                            !.context = plan.context,
                            !.staged = plan.ops,
                            !.ran = (plan.err = NoErr),
                            !.injected = (plan.err = NoErr /\ failAt <= Len(plan.ops))]

EnsureStep(plan, cfg, fault, failAt) ==
    /\ plan.generated => prefixCount < MaxPrefixes
    /\ prefixCount' =
           IF plan.generated /\ fault # "randomPrefix" THEN prefixCount + 1
           ELSE prefixCount
    /\ \E run \in {Run(plan.cluster, plan.ops, failAt)} :
           Finish([Idle EXCEPT
                     !.op = "Ensure", !.cfg = Some(cfg),
                     !.prefix = plan.prefix, !.generated = plan.generated,
                     !.faults = {fault} \ {"none"},
                     !.found = PrimaryPresent(cluster, deploymentType),
                     !.again = (result.op = "Ensure" /\ result.err = NoErr
                                /\ result.cfg = Some(cfg)),
                     !.retry = (result.op = "Ensure" /\ result.ran /\ result.err # NoErr
                                /\ result.cfg = Some(cfg))],
                  plan, run, failAt)
    /\ UNCHANGED deploymentType

\* Ensure of cfg: what it does up to its last line, then the run of the batch,
\* which fails at one of failAts or not at all
Ensure(cfg, fault, failAts) ==
    \E plan \in {EnsurePlan(cluster, deploymentType, cfg, fault, prefixCount)} :
        \E failAt \in failAts : EnsureStep(plan, cfg, fault, failAt)

Exists(faults) ==
    LET r == ExistsResult(cluster, deploymentType, faults)
    IN /\ result' = [Idle EXCEPT !.op = "Exists", !.faults = faults, !.err = r.err,
                                 !.context = r.context, !.state = r.state, !.checked = r.checked]
       /\ UNCHANGED <<deploymentType, cluster, prefixCount>>

DeleteStep(plan, failAt) ==
    /\ Finish([Idle EXCEPT !.op = "Delete",
                            !.again = (result.op = "Delete" /\ result.err = NoErr)],
              [cluster |-> cluster, ops |-> plan.ops, err |-> plan.err, context |-> ""],
              Run(cluster, plan.ops, failAt), failAt)
    /\ UNCHANGED <<deploymentType, prefixCount>>

Delete(failAt) == DeleteStep(DeletePlan(deploymentType), failAt)

UpdatePortsStep(plan, ports, withContainerPorts, faults, failAt) ==
    /\ \E run \in {Run(cluster, plan.ops, failAt)} :
           Finish([Idle EXCEPT !.op = "UpdatePorts", !.ports = ports,
                               !.withContainerPorts = withContainerPorts,
                               !.faults = faults],
                  [cluster |-> cluster, ops |-> plan.ops, err |-> plan.err,
                   context |-> plan.context],
                  run, failAt)
    /\ UNCHANGED <<deploymentType, prefixCount>>

\* UpdatePorts: what it does up to its last lines, then the run of the batch,
\* which fails at one of failAts or not at all
UpdatePorts(ports, withContainerPorts, faults, failAts) ==
    \E plan \in {UpdatePortsPlan(cluster, deploymentType, ports, withContainerPorts,
                                 faults)} :
        \E failAt \in failAts :
            UpdatePortsStep(plan, ports, withContainerPorts, faults, failAt)

UpdateServiceStep(plan, param, faults, failAt) ==
    /\ \E run \in {Run(cluster, plan.ops, failAt)} :
           Finish([Idle EXCEPT !.op = "UpdateService", !.ports = param.Ports,
                               !.withContainerPorts = TRUE,
                               !.serviceType = param.Type,
                               !.faults = faults],
                  [cluster |-> cluster, ops |-> plan.ops, err |-> plan.err,
                   context |-> plan.context],
                  run, failAt)
    /\ UNCHANGED <<deploymentType, prefixCount>>

\* UpdateService: what it does up to its last line, then the run of the batch
UpdateService(param, faults, failAts) ==
    \E plan \in {UpdateServicePlan(cluster, deploymentType, param, faults)} :
        \E failAt \in failAts : UpdateServiceStep(plan, param, faults, failAt)

State(faults, listing) ==
    LET r == StateResult(cluster, deploymentType, faults, listing)
    IN /\ result' = [Idle EXCEPT !.op = "State", !.listing = listing, !.faults = faults,
                                 !.err = r.err, !.context = r.context,
                                 !.desired = r.desired, !.replicas = r.replicas,
                                 !.listed = r.listed]
       /\ UNCHANGED <<deploymentType, cluster, prefixCount>>

\* the control plane marks an object for deletion (a deletion timestamp)
MarkDeleting(r) ==
    /\ CASE r = "secret" ->
              /\ cluster.secret.present /\ ~cluster.secret.deleting
              /\ cluster' = [cluster EXCEPT !.secret.deleting = TRUE]
         [] r = "service" ->
              /\ cluster.service.present /\ ~cluster.service.deleting
              /\ cluster' = [cluster EXCEPT !.service.deleting = TRUE]
         [] r \in Kinds ->
              /\ cluster.workload[r].present /\ ~cluster.workload[r].deleting
              /\ cluster' = [cluster EXCEPT !.workload[r].deleting = TRUE]
    /\ result' = Idle
    /\ UNCHANGED <<deploymentType, prefixCount>>

\* a replica count set out of band (for a DaemonSet, the scheduler's count)
Scale(n) ==
    /\ PrimaryPresent(cluster, deploymentType)
    /\ cluster' =
           IF deploymentType = DeploymentDaemon
           THEN [cluster EXCEPT !.workload["daemonset"].scheduled = n]
           ELSE [cluster EXCEPT !.workload[KindOf(deploymentType)].replicas = Some(n)]
    /\ result' = Idle
    /\ UNCHANGED <<deploymentType, prefixCount>>

\* a workload of another kind that carries the application's name
ForeignWorkload ==
    [AbsentWorkload EXCEPT !.present = TRUE, !.prefix = "other", !.replicas = Some(5),
                           !.scheduled = 5]

\* the application is constructed with its deployment type; the cluster holds
\* none of its objects yet, and may hold the requested storage class
Init ==
    /\ deploymentType \in DeploymentTypes
    /\ \E classes \in {{}, StorageClassNames} :
           cluster =
               [EmptyCluster EXCEPT
                  !.storageClasses = classes,
                  !.workload = [k \in Kinds |->
                                   IF k # KindOf(deploymentType)
                                   THEN ForeignWorkload ELSE AbsentWorkload]]
    /\ prefixCount = 0
    /\ result = Idle

\* Ensure with every configuration; only the batch may fail: it runs to its
\* end (failAt beyond it) or fails at one operation
EnsureCall ==
    \E cfg \in ApplicationConfigs : Ensure(cfg, "none", 1..(MaxBatch + 1))

\* Ensure of an application without filesystems; any collaborator may fail
EnsurePlainCall ==
    \/ Ensure(NoStorageConfig, "none", 1..(MaxBatch + 1))
    \/ \E fault \in EnsureFaults \ {"none"} : Ensure(NoStorageConfig, fault, {1})

ExistsCall ==
    \E faults \in SUBSET {KindOf(deploymentType), "secret", "service"} : Exists(faults)

DeleteCall == \E failAt \in 1..(MaxBatch + 1) : Delete(failAt)

UpdatePortsCall ==
    \E ports \in PortLists, withContainerPorts \in BOOLEAN,
       faults \in SUBSET {"service", "workload"} :
        UpdatePorts(ports, withContainerPorts, faults, 1..(MaxBatch + 1))

\* the batch of a port update holds the Service and at most the workload: it
\* runs to its end or fails at one of the two
UpdateServiceCall ==
    \E param \in [Type : ServiceTypes, Ports : PortLists],
       faults \in SUBSET {"service", "workload"} :
        UpdateService(param, faults, 1..3)

UpdatePortsOnlyCall ==
    \E ports \in PortLists, withContainerPorts \in BOOLEAN,
       faults \in SUBSET {"service", "workload"} :
        UpdatePorts(ports, withContainerPorts, faults, 1..3)

StateCall ==
    \E faults \in SUBSET {"workload", "pods"}, listing \in PodListings :
        State(faults, listing)

\* the headless service is edited out of band
EditHeadless ==
    /\ cluster.headless.present /\ cluster.headless.publishNotReady
    /\ cluster' = [cluster EXCEPT !.headless.publishNotReady = FALSE]
    /\ result' = Idle
    /\ UNCHANGED <<deploymentType, prefixCount>>

MarkDeletingStep ==
    \E r \in (Kinds \cap {KindOf(deploymentType)}) \cup {"secret", "service"} :
        MarkDeleting(r)

ScaleStep == \E n \in 2..MaxReplicas : Scale(n)

\* reconciliation: Ensure with every configuration, Delete, and replica counts
\* set out of band
Next == EnsureCall \/ DeleteCall \/ ScaleStep

Spec == Init /\ [][Next]_vars

\* the read-only calls: objects come and go and are marked for deletion
NextExists ==
    EnsurePlainCall \/ DeleteCall \/ MarkDeletingStep \/ ExistsCall \/ StateCall

SpecExists == Init /\ [][NextExists]_vars

\* Ensure and Delete with a headless service that is edited in between
NextHeadless == EnsurePlainCall \/ DeleteCall \/ EditHeadless

SpecHeadless == Init /\ [][NextHeadless]_vars

\* the live workload of the deployment type as State may find it: not there,
\* or there with or without a replica count and with a scheduled count
LiveWorkloads ==
    {AbsentWorkload}
        \cup {[AbsentWorkload EXCEPT !.present = TRUE, !.prefix = RandomPrefix(1),
                                     !.replicas = r, !.scheduled = n] :
                  r \in {Nil} \cup {Some(i) : i \in 1..MaxReplicas},
                  n \in 0..MaxReplicas}

InitState ==
    /\ deploymentType \in DeploymentTypes
    /\ \E w \in LiveWorkloads :
           cluster =
               [EmptyCluster EXCEPT
                  !.workload = [k \in Kinds |->
                                   IF k # KindOf(deploymentType)
                                   THEN ForeignWorkload ELSE w]]
    /\ prefixCount = 0
    /\ result = Idle

\* State against every live workload
NextState == StateCall

SpecState == InitState /\ [][NextState]_vars

\* the storage classes a cluster may hold when storage is resolved
StorageClassUniverse ==
    {"fast", QualifiedStorageClassName(Namespace, "fast"), "slow"}

\* the arguments of one storage resolution: the filesystems and the prefix in
\* the pending call, the storage classes in the cluster, the claim handler by
\* the deployment type
InitStorage ==
    /\ deploymentType \in KnownDeploymentTypes
    /\ \E classes \in SUBSET StorageClassUniverse :
           cluster = [EmptyCluster EXCEPT !.storageClasses = classes]
    /\ prefixCount = 0
    /\ \E filesystems \in SeqsUpTo(FilesystemParams, MaxFilesystems),
          n \in 1..MaxPrefixes, containers \in ContainerConfigs \cup {NoContainers} :
           result = [op |-> "pending", filesystems |-> filesystems,
                     storageUniqueID |-> RandomPrefix(n), containers |-> containers]

\* configureStorage on its own, with the claim handler of the deployment type
ConfigureStorageCall ==
    /\ result.op = "pending"
    /\ result' = [op |-> "configureStorage", filesystems |-> result.filesystems,
                  storageClasses |-> cluster.storageClasses,
                  storageUniqueID |-> result.storageUniqueID,
                  stateful |-> (deploymentType = DeploymentStateful),
                  containers |-> result.containers,
                  out |-> configureStorageWith(result.containers, result.storageUniqueID,
                                               result.filesystems, cluster.storageClasses,
                                               deploymentType = DeploymentStateful)]
    /\ UNCHANGED <<deploymentType, cluster, prefixCount>>

\* filesystemToVolumeInfo on its own, for one of the filesystems
FilesystemToVolumeInfoCall ==
    /\ result.op = "pending"
    /\ \E i \in DOMAIN result.filesystems :
           result' = [op |-> "filesystemToVolumeInfo", fs |-> result.filesystems[i],
                      storageClasses |-> cluster.storageClasses,
                      storageUniqueID |-> result.storageUniqueID,
                      out |-> filesystemToVolumeInfo(
                                  volumeName(result.filesystems[i].StorageName),
                                  result.filesystems[i], cluster.storageClasses,
                                  result.storageUniqueID)]
    /\ UNCHANGED <<deploymentType, cluster, prefixCount>>

\* storage resolution as a function of its arguments
NextStorage == ConfigureStorageCall \/ FilesystemToVolumeInfoCall

SpecStorage == InitStorage /\ [][NextStorage]_vars

\* the exposed service: Ensure, port updates and Delete
NextPorts == EnsurePlainCall \/ UpdatePortsCall \/ DeleteCall

SpecPorts == Init /\ [][NextPorts]_vars

\* the application may have been deployed before, by a release that did not
\* annotate the workload with a prefix or by one that did
InitPrefix ==
    /\ deploymentType \in DeploymentTypes
    /\ \E live \in {AbsentWorkload,
                     [AbsentWorkload EXCEPT !.present = TRUE, !.replicas = Some(1)],
                     [AbsentWorkload EXCEPT !.present = TRUE, !.replicas = Some(1),
                                            !.prefix = "legacy"]} :
           cluster =
               [EmptyCluster EXCEPT
                  !.workload = [k \in Kinds |->
                                   IF k # KindOf(deploymentType)
                                   THEN ForeignWorkload ELSE live]]
    /\ prefixCount = 0
    /\ result = Idle

NextPrefix == EnsurePlainCall \/ DeleteCall

SpecPrefix == InitPrefix /\ [][NextPrefix]_vars

\* an application that is set up, taken down and looked for
NextRoundTrip == EnsureCall \/ DeleteCall \/ ExistsCall

SpecRoundTrip == Init /\ [][NextRoundTrip]_vars

\* Ensure and the two calls that update ports
NextService == EnsurePlainCall \/ UpdatePortsOnlyCall \/ UpdateServiceCall

SpecService == Init /\ [][NextService]_vars

----------------------------------------------------------------------------
(* Units *)

MaxMounts == 2

charmVolumeName == "charm-data"

\* the names a volume mount may bear
MountNames == {charmVolumeName, "juju-data-0", "db-logs-uid1", "scratch"}

\* constants.LegacyPVNameRegexp: whether it matches, and the storage name it
\* extracts
LegacyPVNameMatches(name) == name = "juju-data-0"
LegacyPVStorageName(name) == "data"

\* constants.PVNameRegexp: whether it matches, and the storage name it extracts
PVNameMatches(name) == name = "db-logs-uid1"
PVStorageName(name) == "logs"

\* what storage.FilesystemInfo answers for a mount: an error, nil, an info
\* with the storage name, or an info without one
FilesystemInfoOutcomes == {"error", "nil", "named", "unnamed"}

\* a volume mount of the first container, with the answer FilesystemInfo will
\* give for it
VolumeMounts == [Name : MountNames, info : FilesystemInfoOutcomes]

\* the pods the label selector may list: their volumes by name, the mounts of
\* their first container, its ports, whether they are being deleted
Pods ==
    [Name : {"db-0"}, Deleting : BOOLEAN,
     Volumes : SUBSET (MountNames \ {charmVolumeName}),
     Ports : {<<[ContainerPort |-> 8080, Protocol |-> "TCP"]>>},
     VolumeMounts : SeqsUpTo(VolumeMounts, MaxMounts)]

\* storage.FilesystemInfo
FilesystemInfo(vol, volMount) ==
    CASE volMount.info = "error" -> [err |-> "api", info |-> Nil]
      [] volMount.info = "nil" -> [err |-> NoErr, info |-> Nil]
      [] volMount.info = "named" ->
             [err |-> NoErr, info |-> Some([StorageName |-> "named", Volume |-> vol])]
      [] OTHER -> [err |-> NoErr, info |-> Some([StorageName |-> "", Volume |-> vol])]

\* the storage name of an info that has none, from the mount's name
WithStorageName(fsInfo, name) ==
    IF fsInfo.StorageName # "" THEN fsInfo
    ELSE IF LegacyPVNameMatches(name)
    THEN [fsInfo EXCEPT !.StorageName = LegacyPVStorageName(name)]
    ELSE IF PVNameMatches(name)
    THEN [fsInfo EXCEPT !.StorageName = PVStorageName(name)]
    ELSE fsInfo

\* the loop over the mounts of the first container: the filesystem infos
\* gathered so far, from mount i on
RECURSIVE GatherFilesystemInfo(_, _, _, _)
GatherFilesystemInfo(acc, i, volumes, mounts) ==
    IF i > Len(mounts) THEN [err |-> NoErr, infos |-> acc]
    ELSE IF mounts[i].Name = charmVolumeName
    THEN GatherFilesystemInfo(acc, i + 1, volumes, mounts)
    ELSE IF mounts[i].Name \notin volumes
    THEN GatherFilesystemInfo(acc, i + 1, volumes, mounts)
    ELSE LET got == FilesystemInfo(mounts[i].Name, mounts[i])
         IN IF got.err # NoErr THEN [err |-> got.err, infos |-> acc]
            ELSE IF got.info = Nil
            THEN GatherFilesystemInfo(acc, i + 1, volumes, mounts)
            ELSE GatherFilesystemInfo(
                     Append(acc, WithStorageName(got.info[1], mounts[i].Name)),
                     i + 1, volumes, mounts)

\* the "port/protocol" strings of a pod
PortStrings(ports) ==
    [i \in DOMAIN ports |-> ToString(ports[i].ContainerPort) \o "/" \o ports[i].Protocol]

\* the unit of one pod
UnitOf(p, dt, infos) ==
    [Id |-> p.Name, Ports |-> PortStrings(p.Ports), Dying |-> p.Deleting,
     Stateful |-> (dt = DeploymentStateful), FilesystemInfo |-> infos]

\* the loop over the pods, from pod i on
RECURSIVE UnitsFrom(_, _, _, _, _)
UnitsFrom(units, i, pods, dt, faults) ==
    IF i > Len(pods) THEN [err |-> NoErr, units |-> units]
    ELSE IF "status" \in faults THEN [err |-> "api", units |-> <<>>]
    ELSE LET g == GatherFilesystemInfo(<<>>, 1, pods[i].Volumes, pods[i].VolumeMounts)
         IN IF g.err # NoErr THEN [err |-> g.err, units |-> <<>>]
            ELSE UnitsFrom(Append(units, UnitOf(pods[i], dt, g.infos)), i + 1, pods,
                           dt, faults)

\* Units: the pods listed by the label selector, one unit each
UnitsResult(pods, dt, faults) ==
    IF "list" \in faults THEN [err |-> "api", units |-> <<>>]
    ELSE UnitsFrom(<<>>, 1, pods, dt, faults)

\* the pods in the cluster and the collaborators' failures for one call
InitUnits ==
    /\ deploymentType \in {DeploymentStateful, DeploymentStateless}
    /\ cluster = EmptyCluster
    /\ prefixCount = 0
    /\ \E pods \in {<<>>} \cup {<<p>> : p \in Pods}, faults \in {{}, {"list"}, {"status"}} :
           result = [op |-> "pending", pods |-> pods, faults |-> faults]

UnitsCall ==
    /\ result.op = "pending"
    /\ \E out \in {UnitsResult(result.pods, deploymentType, result.faults)} :
           result' = [op |-> "Units", pods |-> result.pods, faults |-> result.faults,
                      err |-> out.err, units |-> out.units]
    /\ UNCHANGED <<deploymentType, cluster, prefixCount>>

NextUnits == UnitsCall

SpecUnits == InitUnits /\ [][NextUnits]_vars

----------------------------------------------------------------------------
(* Two Ensure calls of one application at once *)

Callers == {1, 2}

\* a call that has not begun
NotBegun ==
    [pc |-> "begin", ops |-> <<>>, next |-> 1, prefix |-> "", err |-> NoErr,
     serial |-> FALSE]

\* no application yet, and two calls of Ensure with one configuration
InitConcurrent ==
    /\ deploymentType \in KnownDeploymentTypes
    /\ \E classes \in {{}, StorageClassNames} :
           cluster = [EmptyCluster EXCEPT !.storageClasses = classes]
    /\ prefixCount = 0
    /\ \E cfg \in ApplicationConfigs :
           result = [op |-> "Ensure", cfg |-> cfg, before |-> cluster,
                     calls |-> [p \in Callers |-> NotBegun]]

\* a call runs up to its last line: its reads, its writes of the services and
\* the staging of its batch; it is serial when the other call has returned
\* without error by then
EnsureBegin(p, plan) ==
    /\ result.calls[p].pc = "begin"
    /\ plan.generated => prefixCount < MaxPrefixes
    /\ prefixCount' = IF plan.generated THEN prefixCount + 1 ELSE prefixCount
    /\ cluster' = plan.cluster
    /\ result' = [result EXCEPT
                    !.calls[p] = [pc |-> IF plan.err = NoErr THEN "run" ELSE "done",
                                  ops |-> plan.ops, next |-> 1,
                                  prefix |-> plan.prefix, err |-> plan.err,
                                  serial |-> \E q \in Callers \ {p} :
                                                 /\ result.calls[q].pc = "done"
                                                 /\ result.calls[q].err = NoErr]]
    /\ UNCHANGED deploymentType

\* the run of a call's batch makes its next request
EnsureRunNext(p) ==
    /\ result.calls[p].pc = "run"
    /\ cluster' = Process(cluster, result.calls[p].ops[result.calls[p].next])
    /\ result' = [result EXCEPT
                    !.calls[p].next = @ + 1,
                    !.calls[p].pc = IF result.calls[p].next = Len(result.calls[p].ops)
                                    THEN "done" ELSE "run"]
    /\ UNCHANGED <<deploymentType, prefixCount>>

EnsureBeginStep ==
    \E p \in Callers :
        \E plan \in {EnsurePlan(cluster, deploymentType, result.cfg, "none", prefixCount)} :
            EnsureBegin(p, plan)

EnsureRunStep == \E p \in Callers : EnsureRunNext(p)

NextConcurrent == EnsureBeginStep \/ EnsureRunStep

SpecConcurrent == InitConcurrent /\ [][NextConcurrent]_vars

----------------------------------------------------------------------------
(* The cached API endpoints of a controller *)

MaxHostPorts == 2

\* network.HostPort values: a host name, public addresses, a machine-local one
HostPorts ==
    {[Value |-> "example.com", Port |-> 17070, Type |-> "hostname", Scope |-> "public"],
     [Value |-> "1.2.3.4", Port |-> 17070, Type |-> "ipv4", Scope |-> "public"],
     [Value |-> "2001:db8::1", Port |-> 17070, Type |-> "ipv6", Scope |-> "public"],
     [Value |-> "127.0.0.1", Port |-> 17070, Type |-> "ipv4", Scope |-> "machine-local"]}

\* what the host name resolves to, if to anything
DNSAnswers == {"", "1.2.3.4", "5.6.7.8"}

\* network.CollapseHostPorts
RECURSIVE CollapseHostPorts(_)
CollapseHostPorts(servers) ==
    IF servers = <<>> THEN <<>> ELSE Head(servers) \o CollapseHostPorts(Tail(servers))

\* network.FilterUnusableHostPorts
FilterUnusableHostPorts(hps) ==
    SelectSeq(hps, LAMBDA hp : hp.Scope \notin {"machine-local", "link-local"})

\* network.DropDuplicatedHostPorts: the first of equal ones stays
RECURSIVE DropDuplicatedHostPorts(_)
DropDuplicatedHostPorts(hps) ==
    IF hps = <<>> THEN <<>>
    ELSE LET front == DropDuplicatedHostPorts(SubSeq(hps, 1, Len(hps) - 1))
             last == hps[Len(hps)]
         IN IF \E i \in DOMAIN front : front[i] = last THEN front ELSE Append(front, last)

\* the order of network.SortHostPorts: addresses before host names, and among
\* the addresses those of the preferred family first
SortRank(hp, preferIPv6) ==
    CASE hp.Type = "hostname" -> 3
      [] hp.Type = "ipv6" -> IF preferIPv6 THEN 1 ELSE 2
      [] OTHER -> IF preferIPv6 THEN 2 ELSE 1

RECURSIVE SortHostPorts(_, _)
SortHostPorts(hps, preferIPv6) ==
    IF hps = <<>> THEN <<>>
    ELSE LET least == CHOOSE i \in DOMAIN hps :
                          \A j \in DOMAIN hps :
                              \/ SortRank(hps[i], preferIPv6) < SortRank(hps[j], preferIPv6)
                              \/ /\ SortRank(hps[i], preferIPv6) = SortRank(hps[j], preferIPv6)
                                 /\ i <= j
         IN <<hps[least]>>
                \o SortHostPorts([k \in 1..(Len(hps) - 1) |->
                                      IF k < least THEN hps[k] ELSE hps[k + 1]],
                                 preferIPv6)

\* network.EnsureFirstHostPort
EnsureFirstHostPort(first, hps) ==
    <<first>> \o SelectSeq(hps, LAMBDA hp : hp # first)

\* network.HostPortsToStrings
HostPortString(hp) == hp.Value \o ":" \o ToString(hp.Port)
HostPortsToStrings(hps) == [i \in DOMAIN hps |-> HostPortString(hps[i])]

\* network.ResolveOrDropHostnames: a host name becomes the address it resolves
\* to or is dropped
RECURSIVE ResolveOrDropHostnames(_, _)
ResolveOrDropHostnames(hps, dns) ==
    IF hps = <<>> THEN <<>>
    ELSE LET rest == ResolveOrDropHostnames(Tail(hps), dns)
             hp == Head(hps)
         IN IF hp.Type # "hostname" THEN <<hp>> \o rest
            ELSE IF dns = "" THEN rest
            ELSE <<[Value |-> dns, Port |-> hp.Port, Type |-> "ipv4",
                    Scope |-> "public"]>> \o rest

\* the loop that puts the connected addresses first
RECURSIVE EnsureFirstAll(_, _)
EnsureFirstAll(hps, addrConnectedTo) ==
    IF addrConnectedTo = <<>> THEN hps
    ELSE EnsureFirstAll(
             IF Head(addrConnectedTo).Value # ""
             THEN EnsureFirstHostPort(Head(addrConnectedTo), hps) ELSE hps,
             Tail(addrConnectedTo))

\* processHostPorts of PrepareEndpointsForCaching
processHostPorts(allHostPorts, addrConnectedTo, preferIPv6) ==
    EnsureFirstAll(
        SortHostPorts(
            DropDuplicatedHostPorts(FilterUnusableHostPorts(CollapseHostPorts(allHostPorts))),
            preferIPv6),
        addrConnectedTo)

\* addrsChanged as it would be if it did not look at the order
addrsChangedUnordered(a, b) ==
    {a[i] : i \in DOMAIN a} # {b[i] : i \in DOMAIN b}

\* addrsChanged: the slices differ in length or at some index
addrsChanged(a, b) ==
    \/ Len(a) # Len(b)
    \/ \E i \in DOMAIN a : a[i] # b[i]

NothingChanged(resolved) ==
    [addresses |-> <<>>, hostnames |-> <<>>, haveChanged |-> FALSE, resolved |-> resolved]

\* the second half of PrepareEndpointsForCaching, once it needs resolving
PrepareResolved(apiHosts, hostsStrings, endpoint, addrConnectedTo, preferIPv6, dns) ==
    LET apiAddrs == processHostPorts(<<ResolveOrDropHostnames(apiHosts, dns)>>,
                                     addrConnectedTo, preferIPv6)
        addrsStrings == HostPortsToStrings(apiAddrs)
        changed == [addresses |-> addrsStrings, hostnames |-> hostsStrings,
                    haveChanged |-> TRUE, resolved |-> TRUE]
    IN IF Len(apiAddrs) > 0 /\ Len(endpoint.Addresses) > 0
       THEN IF addrsChanged(addrsStrings, endpoint.Addresses) THEN changed
            ELSE NothingChanged(TRUE)
       ELSE IF Len(apiAddrs) > 0 THEN changed
       ELSE NothingChanged(TRUE)

\* PrepareEndpointsForCaching; resolved tells whether it called the resolver
PrepareEndpointsForCaching(endpoint, hostPorts, addrConnectedTo, preferIPv6, dns) ==
    LET apiHosts == processHostPorts(hostPorts, addrConnectedTo, preferIPv6)
        hostsStrings == HostPortsToStrings(apiHosts)
        needResolving ==
            IF Len(apiHosts) > 0 /\ Len(endpoint.Hostnames) > 0
            THEN addrsChanged(hostsStrings, endpoint.Hostnames)
            ELSE Len(apiHosts) > 0
    IN IF ~needResolving THEN NothingChanged(FALSE)
       ELSE PrepareResolved(apiHosts, hostsStrings, endpoint, addrConnectedTo,
                            preferIPv6, dns)

\* the host-port lists a controller reports: one server with up to
\* MaxHostPorts, or two with up to one each
ReportedHostPorts ==
    {<<hps>> : hps \in SeqsUpTo(HostPorts, MaxHostPorts)}
        \cup {<<a, b>> : a \in SeqsUpTo(HostPorts, 1), b \in SeqsUpTo(HostPorts, 1)}

\* the address the connection was made to, if given
ConnectedTo ==
    {<<>>} \cup {<<hp>> : hp \in HostPorts}
        \cup {<<[Value |-> "", Port |-> 0, Type |-> "ipv4", Scope |-> "public"]>>}

\* APIEndpoint.Hostnames and APIEndpoint.Addresses as they may be cached
CachedHostnames ==
    {<<>>, <<"example.com:17070">>, <<"1.2.3.4:17070">>,
     <<"1.2.3.4:17070", "example.com:17070">>,
     <<"example.com:17070", "1.2.3.4:17070">>}

CachedAddresses == {<<>>, <<"1.2.3.4:17070">>, <<"5.6.7.8:17070">>}

InitEndpoints ==
    /\ deploymentType = "unknown"
    /\ cluster = EmptyCluster
    /\ prefixCount = 0
    /\ \E hostPorts \in ReportedHostPorts, addrConnectedTo \in ConnectedTo,
          hostnames \in CachedHostnames, addresses \in CachedAddresses,
          preferIPv6 \in BOOLEAN, dns \in DNSAnswers :
           result = [op |-> "pending", hostPorts |-> hostPorts,
                     addrConnectedTo |-> addrConnectedTo,
                     endpoint |-> [Hostnames |-> hostnames, Addresses |-> addresses],
                     preferIPv6 |-> preferIPv6, dns |-> dns]

PrepareEndpointsForCachingCall ==
    /\ result.op = "pending"
    /\ \E out \in {PrepareEndpointsForCaching(result.endpoint, result.hostPorts,
                                              result.addrConnectedTo, result.preferIPv6,
                                              result.dns)} :
           result' = [result EXCEPT !.op = "PrepareEndpointsForCaching"] @@ [out |-> out]
    /\ UNCHANGED <<deploymentType, cluster, prefixCount>>

NextEndpoints == PrepareEndpointsForCachingCall

SpecEndpoints == InitEndpoints /\ [][NextEndpoints]_vars

----------------------------------------------------------------------------
(* UpdateControllerAddresses and the two stores it writes *)

cachedAddressesExistErr == "cached API endpoints unexpectedly exist"

ControllerNames == {"ctrl", "fresh"}
ControllerUUIDs == {"uuid-1", "uuid-2"}

\* ControllerUpdateParams
ControllerParams ==
    [ControllerName : ControllerNames \cup {""},
     ControllerUUID : ControllerUUIDs \cup {""},
     CACert : {"cert"}]

\* jujuclient.ControllerDetails of the one controller a store may know
KnownController ==
    [ControllerUUID |-> "uuid-1", CACert |-> "cert", Servers |-> <<>>,
     APIEndpoints |-> <<>>]

\* the legacy connection info (its API endpoint) and the controller store
StoresBefore ==
    [legacy : [Hostnames : CachedHostnames, Addresses : CachedAddresses,
               ServerUUID : {""}],
     controllers : {[n \in {} |-> KnownController], [n \in {"ctrl"} |-> KnownController]}]

\* the call of a store that fails, if one does
AddressFaults ==
    {"none", "ReadInfo", "AllControllers", "ControllerByName", "Write", "UpdateController"}

\* the lookup of the controller: by UUID among all of them when no name is
\* given, else by name, a new one being made up when there is none
LookupController(stores, params, fault) ==
    IF params.ControllerName = ""
    THEN IF fault = "AllControllers" THEN [err |-> "api", name |-> "", details |-> Nil]
         ELSE LET found == {n \in DOMAIN stores.controllers :
                               stores.controllers[n].ControllerUUID = params.ControllerUUID}
              IN IF found = {} THEN [err |-> NoErr, name |-> "", details |-> Nil]
                 ELSE LET n == CHOOSE x \in found : TRUE
                      IN [err |-> NoErr, name |-> n,
                          details |-> Some(stores.controllers[n])]
    ELSE IF fault = "ControllerByName"
    THEN [err |-> "api", name |-> params.ControllerName, details |-> Nil]
    ELSE IF params.ControllerName \notin DOMAIN stores.controllers
    THEN [err |-> NoErr, name |-> params.ControllerName,
          details |-> Some([ControllerUUID |-> params.ControllerUUID,
                            CACert |-> params.CACert, Servers |-> <<>>,
                            APIEndpoints |-> <<>>])]
    ELSE [err |-> NoErr, name |-> params.ControllerName,
          details |-> Some(stores.controllers[params.ControllerName])]

\* the two writes: the legacy info first, then the controller store
WriteAddresses(stores, name, details, prep, fault) ==
    IF fault = "Write" THEN [err |-> "api", stores |-> stores]
    ELSE LET written ==
                 [stores EXCEPT !.legacy = [Hostnames |-> prep.hostnames,
                                            Addresses |-> prep.addresses,
                                            ServerUUID |-> details.ControllerUUID]]
             updated == [details EXCEPT !.Servers = prep.hostnames,
                                        !.APIEndpoints = prep.addresses]
         IN IF fault = "UpdateController" THEN [err |-> "api", stores |-> written]
            ELSE [err |-> NoErr,
                  stores |-> [written EXCEPT
                                !.controllers =
                                    [n \in DOMAIN @ \cup {name} |->
                                         IF n = name THEN updated ELSE @[n]]]]

\* the end of UpdateControllerAddresses as it would be if it wrote what
\* PrepareEndpointsForCaching returned whether or not anything changed
WriteIfChangedAlways(stores, name, details, prep, fault) ==
    WriteAddresses(stores, name, details, prep, fault)

\* from the result of PrepareEndpointsForCaching on
WriteIfChanged(stores, name, details, prep, fault) ==
    IF ~prep.haveChanged THEN [err |-> cachedAddressesExistErr, stores |-> stores]
    ELSE WriteAddresses(stores, name, details, prep, fault)

UpdateControllerAddresses(stores, params, hostPorts, addrConnectedTo, dns, fault) ==
    IF params.ControllerName = "" /\ params.ControllerUUID = ""
    THEN [err |-> "expected either controller name or UUID", stores |-> stores]
    ELSE IF fault = "ReadInfo" THEN [err |-> "api", stores |-> stores]
    ELSE LET found == LookupController(stores, params, fault)
         IN IF found.err # NoErr THEN [err |-> found.err, stores |-> stores]
            ELSE IF found.name = "" THEN [err |-> "NotFound", stores |-> stores]
            ELSE WriteIfChanged(
                     stores, found.name, found.details[1],
                     PrepareEndpointsForCaching(
                         [Hostnames |-> stores.legacy.Hostnames,
                          Addresses |-> stores.legacy.Addresses],
                         hostPorts, addrConnectedTo, FALSE, dns),
                     fault)

\* the host ports a connected controller reports, and the address connected to
CurrentHostPorts == {<<hps>> : hps \in SeqsUpTo(HostPorts, 1)}

InitAddresses ==
    /\ deploymentType = "unknown"
    /\ cluster = EmptyCluster
    /\ prefixCount = 0
    /\ \E stores \in StoresBefore, params \in ControllerParams,
          hostPorts \in CurrentHostPorts,
          addrConnectedTo \in {<<>>} \cup {<<hp>> : hp \in {x \in HostPorts : x.Type = "ipv4"}},
          dns \in {"", "5.6.7.8"}, fault \in AddressFaults :
           result = [op |-> "pending", stores |-> stores, params |-> params,
                     hostPorts |-> hostPorts, addrConnectedTo |-> addrConnectedTo,
                     dns |-> dns, fault |-> fault]

UpdateControllerAddressesCall ==
    /\ result.op = "pending"
    /\ \E out \in {UpdateControllerAddresses(result.stores, result.params,
                                             result.hostPorts, result.addrConnectedTo,
                                             result.dns, result.fault)} :
           result' = [result EXCEPT !.op = "UpdateControllerAddresses",
                                    !.stores = out.stores]
                         @@ [before |-> result.stores, err |-> out.err]
    /\ UNCHANGED <<deploymentType, cluster, prefixCount>>

NextAddresses == UpdateControllerAddressesCall

SpecAddresses == InitAddresses /\ [][NextAddresses]_vars

----------------------------------------------------------------------------
(* newAPIFromStore: the two connection attempts and the choice of the error *)

\* an error value: whether it is an *infoConnectError around the error proper,
\* whether the error proper is a not-found error, and its message; NilError
\* is the nil error
NilError == [wrapped |-> FALSE, notFound |-> FALSE, msg |-> ""]

errAborted == [wrapped |-> FALSE, notFound |-> FALSE, msg |-> "aborted"]

\* getConfig's error for an info without bootstrap config
NoBootstrapConfig == [wrapped |-> FALSE, notFound |-> TRUE, msg |-> "bootstrap config"]

\* the errors of apiOpen in the two attempts and of the calls on a connection
OpenError == [wrapped |-> FALSE, notFound |-> FALSE, msg |-> "dial"]
infoConnectError(err) == [err EXCEPT !.wrapped = TRUE]
AddrError == [wrapped |-> FALSE, notFound |-> FALSE, msg |-> "invalid API address"]
TagError == [wrapped |-> FALSE, notFound |-> FALSE, msg |-> "controller tag"]
ReadInfoError == [wrapped |-> FALSE, notFound |-> TRUE, msg |-> "model info"]

\* errorImportance as it would be if it ranked a not-found error above the
\* others
errorImportanceNotFoundFirst(err) ==
    IF err = NilError THEN 0
    ELSE IF err.notFound /\ ~err.wrapped THEN 3
    ELSE IF err.wrapped THEN 1
    ELSE 2

\* errors.IsNotFound looks at the error itself, which for an
\* *infoConnectError is the wrapper
errorImportance(err) ==
    IF err = NilError THEN 0
    ELSE IF err.notFound /\ ~err.wrapped THEN 2
    ELSE IF err.wrapped THEN 1
    ELSE 3

chooseError(err0, err1) ==
    IF err0 = NilError THEN err1
    ELSE IF errorImportance(err0) < errorImportance(err1) THEN err1
    ELSE err0

\* the end of newAPIFromStore on an error: an *infoConnectError loses its
\* wrapper
LoseEncapsulation(err) == [err EXCEPT !.wrapped = FALSE]

providerConnectDelay == 2

\* the delay handed to apiConfigConnect as it would be without the assignment
\* made when cached addresses exist
ProviderDelayZero(cached) == 0

\* the delay handed to apiConfigConnect
ProviderDelay(cached) == IF cached THEN providerConnectDelay ELSE 0

\* an attempt: where it is, what it returned, whether it called apiOpen
NoAttempt == [pc |-> "idle", ok |-> FALSE, err |-> NilError, opened |-> FALSE]

\* the call before it begins: whether addresses are cached, whether there is a
\* bootstrap config, whether apiOpen succeeds with the one and the other, and
\* which of the calls on the connection fails, if one does
InitConnect ==
    /\ deploymentType = "unknown"
    /\ cluster = EmptyCluster
    /\ prefixCount = 0
    /\ \E cached \in BOOLEAN, hasConfig \in BOOLEAN, infoOpens \in BOOLEAN,
          configOpens \in BOOLEAN, after \in {"ok", "Addr", "ControllerTag"},
          readInfo \in BOOLEAN :
           result = [op |-> "newAPIFromStore", pc |-> "begin",
                     cached |-> cached, hasConfig |-> hasConfig,
                     infoOpens |-> infoOpens, configOpens |-> configOpens,
                     after |-> after, readInfo |-> readInfo,
                     info |-> NoAttempt, config |-> NoAttempt,
                     delay |-> 0, elapsed |-> FALSE, stop |-> FALSE,
                     received |-> {}, won |-> "none", err |-> NilError,
                     conn |-> "none", returned |-> NilError, updated |-> FALSE]

Connecting == UNCHANGED <<deploymentType, cluster, prefixCount>>

\* newAPIFromStore reads the info and starts the attempts
StartAttempts ==
    /\ result.pc = "begin"
    /\ result' =
           IF ~result.readInfo
           THEN [result EXCEPT !.pc = "returned", !.returned = ReadInfoError]
           ELSE [result EXCEPT
                   !.pc = "trying",
                   !.info.pc = IF result.cached THEN "open" ELSE "idle",
                   !.config.pc = "getConfig",
                   !.delay = ProviderDelay(result.cached),
                   !.elapsed = (ProviderDelay(result.cached) = 0)]
    /\ Connecting

\* apiInfoConnect
InfoConnect ==
    /\ result.info.pc = "open"
    /\ result' = [result EXCEPT
                    !.info = [pc |-> "done", ok |-> result.infoOpens,
                              err |-> IF result.infoOpens THEN NilError
                                      ELSE infoConnectError(OpenError),
                              opened |-> TRUE]]
    /\ Connecting

\* the second attempt up to the select of apiConfigConnect
ConfigGetConfig ==
    /\ result.config.pc = "getConfig"
    /\ result' = IF result.hasConfig
                 THEN [result EXCEPT !.config.pc = "select"]
                 ELSE [result EXCEPT !.config.pc = "done",
                                     !.config.err = NoBootstrapConfig]
    /\ Connecting

\* providerConnectDelay passes
DelayElapses ==
    /\ result.config.pc = "select" /\ ~result.elapsed
    /\ result' = [result EXCEPT !.elapsed = TRUE]
    /\ Connecting

\* the select of apiConfigConnect takes a case that is ready
ConfigAborted ==
    /\ result.config.pc = "select" /\ result.stop
    /\ result' = [result EXCEPT !.config.pc = "done", !.config.err = errAborted]
    /\ Connecting

ConfigDelayed ==
    /\ result.config.pc = "select" /\ result.elapsed
    /\ result' = [result EXCEPT !.config.pc = "open"]
    /\ Connecting

\* the rest of apiConfigConnect
ConfigConnect ==
    /\ result.config.pc = "open"
    /\ result' = [result EXCEPT
                    !.config = [pc |-> "done", ok |-> result.configOpens,
                                err |-> IF result.configOpens THEN NilError
                                        ELSE OpenError,
                                opened |-> TRUE]]
    /\ Connecting

\* the Try takes the result of an attempt: the first success wins and closes
\* the stop channel, an error is combined with those before it
TryReceive(a) ==
    /\ result.pc = "trying" /\ result.won = "none"
    /\ a \notin result.received
    /\ result[a].pc = "done"
    /\ result' = IF result[a].ok
                 THEN [result EXCEPT !.received = @ \cup {a}, !.won = a, !.stop = TRUE]
                 ELSE [result EXCEPT !.received = @ \cup {a},
                                     !.err = chooseError(@, result[a].err)]
    /\ Connecting

Started == IF result.cached THEN {"info", "config"} ELSE {"config"}

\* try.Result and what follows it
Return ==
    /\ result.pc = "trying"
    /\ result.won # "none" \/ result.received = Started
    /\ result' =
           IF result.won = "none"
           THEN [result EXCEPT !.pc = "returned",
                               !.returned = LoseEncapsulation(result.err)]
           ELSE IF result.after = "Addr"
           THEN [result EXCEPT !.pc = "returned", !.returned = AddrError]
           ELSE IF result.after = "ControllerTag"
           THEN [result EXCEPT !.pc = "returned", !.returned = TagError]
           ELSE [result EXCEPT !.pc = "returned", !.conn = result.won,
                               !.updated = TRUE]
    /\ Connecting

TryReceiveStep == \E a \in {"info", "config"} : TryReceive(a)

NextConnect ==
    \/ StartAttempts \/ InfoConnect \/ ConfigGetConfig \/ DelayElapses
    \/ ConfigAborted \/ ConfigDelayed \/ ConfigConnect \/ TryReceiveStep \/ Return

SpecConnect == InitConnect /\ [][NextConnect]_vars

----------------------------------------------------------------------------
(* The error of newAPIFromStore when no attempt succeeds *)

MaxErrors == 2

ErrorMessages == {"dial", "timeout", "config"}

\* the errors an attempt can return
Errors == [wrapped : BOOLEAN, notFound : BOOLEAN, msg : ErrorMessages]

\* the errors of the attempts in the order the Try records them
RecordedErrors == UNION {[1..n -> Errors] : n \in 1..MaxErrors}

RECURSIVE CombineErrors(_, _, _)
\* the Try combines each recorded error with the combination of those before
CombineErrors(acc, errs, i) ==
    IF i > Len(errs) THEN acc
    ELSE CombineErrors(chooseError(acc, errs[i]), errs, i + 1)

\* try.Result with every attempt failed, and the return of newAPIFromStore
ResultError(errs) == LoseEncapsulation(CombineErrors(NilError, errs, 1))

InitChoose ==
    /\ deploymentType = "unknown"
    /\ cluster = EmptyCluster
    /\ prefixCount = 0
    /\ \E errs \in RecordedErrors :
           result = [op |-> "pending", errs |-> errs, err |-> NilError]

ResultErrorCall ==
    /\ result.op = "pending"
    /\ result' = [result EXCEPT !.op = "newAPIFromStore",
                                !.err = ResultError(result.errs)]
    /\ Connecting

NextChoose == ResultErrorCall

SpecChoose == InitChoose /\ [][NextChoose]_vars

----------------------------------------------------------------------------
(* getRemoteConfig of the LXD provider (src/unnamed/part_000) *)

credAttrClientCert == "client-cert"
credAttrClientKey == "client-key"
credAttrServerCert == "server-cert"
CredAttrs == {credAttrClientCert, credAttrClientKey, credAttrServerCert}

\* the values of a credential attribute; an attribute may be there and empty
PEMs == {"", "pem-a", "pem-b"}

\* the attributes of a credential: a map from some of the names to values
CredentialAttributes == UNION {[names -> PEMs] : names \in SUBSET CredAttrs}

\* the cloud specs: with or without a credential
Endpoints == {"10.0.0.1:8443", "lxd.example.com"}
CloudSpecs ==
    [Endpoint : Endpoints,
     Credential : {Nil} \cup {Some(attrs) : attrs \in CredentialAttributes}]

NoCerts == [client |-> Nil, server |-> "", ok |-> FALSE]

\* getCerts as it would be without the lookup of the client key
getCertsNoClientKey(spec) ==
    IF spec.Credential = Nil THEN NoCerts
    ELSE LET credAttrs == spec.Credential[1] IN
         IF credAttrClientCert \notin DOMAIN credAttrs THEN NoCerts
         ELSE IF credAttrServerCert \notin DOMAIN credAttrs THEN NoCerts
         ELSE [client |-> Some([Name |-> "juju",
                                CertPEM |-> credAttrs[credAttrClientCert],
                                KeyPEM |-> ""]),
               server |-> credAttrs[credAttrServerCert],
               ok |-> TRUE]

getCerts(spec) ==
    IF spec.Credential = Nil THEN NoCerts
    ELSE LET credAttrs == spec.Credential[1] IN
         IF credAttrClientCert \notin DOMAIN credAttrs THEN NoCerts
         ELSE IF credAttrClientKey \notin DOMAIN credAttrs THEN NoCerts
         ELSE IF credAttrServerCert \notin DOMAIN credAttrs THEN NoCerts
         ELSE [client |-> Some([Name |-> "juju",
                                CertPEM |-> credAttrs[credAttrClientCert],
                                KeyPEM |-> credAttrs[credAttrClientKey]]),
               server |-> credAttrs[credAttrServerCert],
               ok |-> TRUE]

getRemoteConfig(spec) ==
    LET certs == getCerts(spec) IN
    IF ~certs.ok
    THEN [config |-> Nil, err |-> "NotValid", what |-> "credentials"]
    ELSE [config |-> Some([Name |-> "remote",
                           Host |-> spec.Endpoint,
                           Protocol |-> "lxd",
                           Cert |-> certs.client[1],
                           ServerPEMCert |-> certs.server]),
          err |-> NoErr, what |-> ""]

InitRemote ==
    /\ deploymentType = "unknown"
    /\ cluster = EmptyCluster
    /\ prefixCount = 0
    /\ \E spec \in CloudSpecs :
           result = [op |-> "pending", spec |-> spec, config |-> Nil,
                     err |-> NoErr, what |-> ""]

getRemoteConfigCall ==
    /\ result.op = "pending"
    /\ \E r \in {getRemoteConfig(result.spec)} :
           result' = [result EXCEPT !.op = "getRemoteConfig", !.config = r.config,
                                    !.err = r.err, !.what = r.what]
    /\ UNCHANGED <<deploymentType, cluster, prefixCount>>

NextRemote == getRemoteConfigCall

SpecRemote == InitRemote /\ [][NextRemote]_vars

----------------------------------------------------------------------------
(* State, one pod list call at a time *)

MaxCalls == 4

\* the answers of the pod list call of PodListings, and servers that hand out
\* no token with items remaining, or a count below zero
PageListings ==
    PodListings
        \cup {<<Page(<<"db-0">>, Some(1), "")>>,
              <<Page(<<"db-1">>, Some(-1), "t1"), Page(<<"db-0">>, Some(0), "t2")>>,
              <<Page(<<"db-2">>, Some(1), "t1"), Page(<<"db-1">>, Some(1), "t2"),
                Page(<<"db-0">>, Some(3), "t1")>>}

\* the test after a page as it would be if it went by the continue token
MorePagesByToken(res) == res.continue # ""

\* the test after a page: whether the loop goes round again
MorePages(res) == ~(res.remaining = Nil \/ res.remaining = Some(0))

\* State is called on a live workload; the server has its pages, and one of the
\* list calls may fail
InitPages ==
    /\ deploymentType \in KnownDeploymentTypes
    /\ cluster = [EmptyCluster EXCEPT
                    !.workload[KindOf(deploymentType)] =
                        [AbsentWorkload EXCEPT !.present = TRUE, !.replicas = Some(2),
                                               !.scheduled = 2]]
    /\ prefixCount = 0
    /\ \E listing \in PageListings, failAt \in 0..MaxCalls, fault \in BOOLEAN :
           result = [op |-> "State", pc |-> "switch", listing |-> listing,
                     failAt |-> failAt, fault |-> fault,
                     next |-> "", requests |-> <<>>, pages |-> <<>>, acc |-> <<>>,
                     err |-> NoErr, desired |-> 0, replicas |-> <<>>]

\* the switch on the deployment type
StateSwitch ==
    /\ result.pc = "switch"
    /\ \E d \in {DesiredReplicas(cluster, deploymentType, result.fault)} :
           result' = IF d.err # NoErr
                     THEN [result EXCEPT !.pc = "done", !.err = d.err]
                     ELSE [result EXCEPT !.pc = "list", !.desired = d.desired]
    /\ UNCHANGED <<deploymentType, cluster, prefixCount>>

\* one round of the loop: the list call with the token at hand, the names of
\* its page, and the test; after the last round the names are sorted and
\* State returns
StateListPage ==
    /\ result.pc = "list"
    /\ Len(result.requests) < MaxCalls
    /\ LET requests == Append(result.requests, result.next)
       IN IF Len(requests) = result.failAt
          THEN result' = [result EXCEPT !.pc = "done", !.requests = requests,
                                        !.err = "api", !.desired = 0]
          ELSE \E res \in {ListPods(result.listing, result.next)} :
                   result' =
                       IF MorePages(res)
                       THEN [result EXCEPT !.requests = requests,
                                           !.pages = Append(@, res),
                                           !.acc = @ \o res.items,
                                           !.next = res.continue]
                       ELSE [result EXCEPT !.pc = "done", !.requests = requests,
                                           !.pages = Append(@, res),
                                           !.acc = @ \o res.items,
                                           !.replicas = SortStrings(result.acc \o res.items)]
    /\ UNCHANGED <<deploymentType, cluster, prefixCount>>

NextPages == StateSwitch \/ StateListPage

SpecPages == InitPages /\ [][NextPages]_vars /\ WF_vars(NextPages)

----------------------------------------------------------------------------
(* Properties of Ensure *)

\* the live workload object of the application's deployment type
Primary == cluster.workload[KindOf(deploymentType)]

\* the names of the claims a batch stages
StagedClaimNames(ops) == {ops[i].name : i \in {j \in DOMAIN ops : ops[j].kind = "claim"}}

\* the workload objects a batch stages
StagedWorkloads(ops) == {ops[i].obj : i \in {j \in DOMAIN ops : ops[j].kind \in Kinds}}

\* the claims a batch creates: the standalone ones and the claim templates
StagedClaims(ops) ==
    {ops[i].obj : i \in {j \in DOMAIN ops : ops[j].kind = "claim"}}
        \cup UNION {w.claimTemplates : w \in StagedWorkloads(ops)}

HasDuplicateNames(filesystems) ==
    \E i, j \in DOMAIN filesystems :
        i # j /\ filesystems[i].StorageName = filesystems[j].StorageName

\* C1: an Ensure that follows a successful Ensure of the same configuration,
\* with nothing done to the cluster in between, leaves every object of the
\* cluster (secret, services, workloads with their prefix annotation and
\* replica count, claims, storage classes) as the first call left it
C1_EnsureIdempotent ==
    [][(result'.op = "Ensure" /\ result'.again) => cluster' = cluster]_vars

\* a second successful Ensure of a configuration with a claim and a volume
C1_Witness ==
    /\ result.op = "Ensure" /\ result.again /\ result.err = NoErr
    /\ Len(result.cfg[1].Filesystems) = 2
    /\ cluster.claims # {}

\* C2: when the live workload of the deployment type carries a non-empty
\* prefix annotation, an Ensure resolves exactly that prefix, does not call
\* the generator, stages the workload with that annotation and names every
\* claim with that suffix, and the annotation is still there afterwards
C2_PrefixStable ==
    [][(/\ result'.op = "Ensure"
        /\ PrimaryPresent(cluster, deploymentType)
        /\ Primary.prefix # "")
       => /\ ~result'.generated
          /\ prefixCount' = prefixCount
          /\ result'.prefix = Primary.prefix
          /\ \A w \in StagedWorkloads(result'.staged) : w.prefix = Primary.prefix
          /\ \A pvc \in StagedClaims(result'.staged) :
                 pvc.name = pvcNameGetter(volumeName(pvc.storage), Primary.prefix)
          /\ Primary'.prefix = Primary.prefix]_vars

\* an Ensure of a live, annotated workload that staged a claim under the
\* annotation's prefix after the generator had been used once
C2_Witness ==
    /\ result.op = "Ensure" /\ result.found /\ result.err = NoErr
    /\ prefixCount = 1 /\ result.prefix = RandomPrefix(1)
    /\ StagedClaims(result.staged) # {}
    /\ PrimaryPresent(cluster, deploymentType) /\ Primary.prefix = RandomPrefix(1)

\* C3: when the batch of an Ensure failed partway, the retry with the same
\* configuration stages again, under the same name, every claim the failed
\* attempt left in the cluster
C3_RetryRederivesAppliedClaims ==
    [][(result'.op = "Ensure" /\ result'.retry)
       => \A i \in DOMAIN result.staged :
              (result.staged[i].kind = "claim" /\ result.staged[i].obj \in cluster.claims)
                  => result.staged[i].name \in StagedClaimNames(result'.staged)]_vars

\* C4: for each of the three deployment types, an Ensure of a configuration
\* with two filesystems of the same storage name returns NotValid, having
\* staged nothing and written nothing to the cluster
C4_DuplicateRejectedBeforeStaging ==
    [][(/\ result'.op = "Ensure"
        /\ deploymentType \in KnownDeploymentTypes
        /\ HasDuplicateNames(result'.cfg[1].Filesystems))
       => /\ result'.err = "NotValid"
          /\ result'.staged = <<>>
          /\ cluster' = cluster]_vars

\* C5: an Ensure leaves a default service that is there exactly as it is,
\* ports included; where there is none it writes the one with the placeholder
\* port, or nothing when it fails before
C5_DefaultServiceCreatedOnce ==
    [][result'.op = "Ensure"
       => IF cluster.service.present
          THEN cluster'.service = cluster.service
          ELSE \/ cluster'.service = cluster.service
               \/ cluster'.service =
                      [present |-> TRUE, deleting |-> FALSE,
                       ports |-> placeholderPorts,
                       type |-> ServiceTypeClusterIP]]_vars

\* a successful Ensure after UpdatePorts gave the service two ports
C5_Witness ==
    /\ result.op = "Ensure" /\ result.err = NoErr /\ result.found
    /\ cluster.service.present
    /\ Len(cluster.service.ports) = 2

\* C6: the workload Ensure stages carries a replica count of one when the
\* type is Stateful or Stateless and the workload was not there when Ensure
\* began, and none otherwise; the replica count of a workload that was there
\* is after the Ensure what it was before
C6_ReplicasOnlyOnCreation ==
    [][result'.op = "Ensure"
       => /\ \A w \in StagedWorkloads(result'.staged) :
                 w.replicas =
                     IF /\ deploymentType \in {DeploymentStateful, DeploymentStateless}
                        /\ ~PrimaryPresent(cluster, deploymentType)
                     THEN Some(1) ELSE Nil
          /\ PrimaryPresent(cluster, deploymentType)
                 => Primary'.replicas = Primary.replicas]_vars

\* a successful Ensure of a workload that had been scaled to two replicas
C6_Witness ==
    /\ result.op = "Ensure" /\ result.err = NoErr /\ result.found
    /\ deploymentType \in {DeploymentStateful, DeploymentStateless}
    /\ \E w \in StagedWorkloads(result.staged) : w.replicas = Nil
    /\ Primary.replicas = Some(2)

----------------------------------------------------------------------------
(* Properties of the dispatch on the deployment type *)

\* a call on one of the three deployment types is not rejected, leaves the
\* workloads of the other kinds alone, and has acted on the type's own kind
\* when it succeeds
KnownTypeActsOnItsKind ==
    /\ \A k \in Kinds \ {KindOf(deploymentType)} : cluster.workload[k] = ForeignWorkload
    /\ deploymentType \in KnownDeploymentTypes
           => /\ result.err # "NotSupported"
              /\ (result.op = "Ensure" /\ result.err = NoErr) => Primary.present
              /\ (result.op = "Delete" /\ result.err = NoErr) => ~Primary.present
              /\ (result.op = "Exists" /\ result.err = NoErr /\ Primary.present)
                     => result.state.Exists
              /\ (result.op = "State" /\ result.err = NoErr)
                     => /\ Primary.present
                        /\ result.desired =
                               IF deploymentType = DeploymentDaemon
                               THEN Primary.scheduled ELSE Primary.replicas[1]

----------------------------------------------------------------------------
(* Properties of Exists *)

\* what the i-th check of Exists looks at, and its label
CheckedObject(i) ==
    CASE i = 1 -> Primary
      [] i = 2 -> cluster.secret
      [] OTHER -> cluster.service

CheckLabel(i) == <<KindOf(deploymentType), "secret", "service">>[i]

\* the i-th object is there and marked for deletion
Marked(i) == CheckedObject(i).present /\ CheckedObject(i).deleting

\* C8: an Exists that returns no error reports Exists exactly when the
\* primary workload, the secret or the default service is there; with only an
\* unmarked secret it returns (true, false), with none of them (false, false)
C8_ExistenceAggregation ==
    (result.op = "Exists" /\ result.err = NoErr)
        => /\ result.state.Exists <=> \E i \in 1..3 : CheckedObject(i).present
           /\ (/\ cluster.secret.present /\ ~cluster.secret.deleting
               /\ ~Primary.present /\ ~cluster.service.present)
                  => result.state = [Exists |-> TRUE, Terminating |-> FALSE]
           /\ (\A i \in 1..3 : ~CheckedObject(i).present) => result.state = NoState

\* Exists has answered with only the secret there
C8_Witness ==
    /\ result.op = "Exists" /\ result.err = NoErr
    /\ cluster.secret.present /\ ~cluster.secret.deleting
    /\ ~Primary.present /\ ~cluster.service.present
    /\ result.state = [Exists |-> TRUE, Terminating |-> FALSE]

\* C9: the checks run in the order primary workload, secret, default service;
\* at the first object that is there and marked for deletion, Exists returns
\* (true, true) without running the checks after it, whatever their Gets
\* would have returned
C9_TerminatingShortCircuit ==
    (result.op = "Exists" /\ deploymentType \in KnownDeploymentTypes)
        => \A i \in 1..3 :
               (/\ Marked(i)
                /\ \A j \in 1..(i - 1) : ~Marked(j)
                /\ \A j \in 1..i : CheckLabel(j) \notin result.faults)
                   => /\ result.err = NoErr
                      /\ result.state = [Exists |-> TRUE, Terminating |-> TRUE]
                      /\ result.checked = i

\* Exists has answered for a marked primary workload while the Gets of the
\* secret and of the service were failing
C9_Witness ==
    /\ result.op = "Exists" /\ deploymentType \in KnownDeploymentTypes
    /\ Marked(1)
    /\ result.faults = {"secret", "service"}
    /\ result.err = NoErr
    /\ result.state = [Exists |-> TRUE, Terminating |-> TRUE]

\* C10: Exists fails only when a Get fails with something other than
\* not-found; the first such check that is run makes it return that error,
\* annotated with the check's label, and an empty state
C10_ExistsErrors ==
    (result.op = "Exists" /\ deploymentType \in KnownDeploymentTypes)
        => /\ result.faults = {} => result.err = NoErr
           /\ result.err # NoErr => CheckLabel(result.checked) \in result.faults
           /\ \A i \in 1..3 :
                  (/\ CheckLabel(i) \in result.faults
                   /\ \A j \in 1..(i - 1) :
                          ~Marked(j) /\ CheckLabel(j) \notin result.faults)
                      => /\ result.err = "api"
                         /\ result.context = CheckLabel(i) \o " resource check"
                         /\ result.state = NoState
                         /\ result.checked = i

\* Exists has failed on the secret after it found the primary workload
C10_Witness ==
    /\ result.op = "Exists" /\ deploymentType \in KnownDeploymentTypes
    /\ Primary.present /\ ~Primary.deleting
    /\ result.faults = {"secret"}
    /\ result.err = "api" /\ result.context = "secret resource check"
    /\ result.state = NoState

----------------------------------------------------------------------------
(* Properties of State *)

\* the pod names of all the pages of a listing
NamesOf(listing) ==
    UNION {{listing[i].items[j] : j \in DOMAIN listing[i].items} : i \in DOMAIN listing}

\* every page but the last reports items remaining and hands out a continue
\* token; the last reports none remaining
WellPaged(listing) ==
    /\ \A i \in 1..(Len(listing) - 1) :
           /\ listing[i].remaining # Nil /\ listing[i].remaining # Some(0)
           /\ listing[i].continue # ""
    /\ listing[Len(listing)].remaining \in {Nil, Some(0)}

\* C11: when the pods are served over pages of which every one but the last
\* reports items remaining, a State that returns no error returns in Replicas
\* the pod names of all the pages, each once, in lexicographic order
C11_PaginationUnion ==
    (result.op = "State" /\ result.err = NoErr /\ WellPaged(result.listing))
        => /\ {result.replicas[i] : i \in DOMAIN result.replicas} = NamesOf(result.listing)
           /\ \A i, j \in DOMAIN result.replicas :
                  i < j => Rank(result.replicas[i]) < Rank(result.replicas[j])

\* State has returned the three names of a listing served over three pages
C11_Witness ==
    /\ result.op = "State" /\ result.err = NoErr
    /\ Len(result.listing) = 3 /\ WellPaged(result.listing)
    /\ result.replicas = PodNames

----------------------------------------------------------------------------
(* Scenarios *)

\* none of the application's own objects is in the cluster
NoResources ==
    /\ ~cluster.secret.present /\ ~cluster.service.present /\ ~cluster.headless.present
    /\ ~PrimaryPresent(cluster, deploymentType)

\* none of the objects Exists looks at is marked for deletion
NoneMarked == \A i \in 1..3 : ~Marked(i)

\* C12: for the Stateful application "db" with none of its objects there, an
\* Ensure that returns no error leaves the StatefulSet "db" with one replica,
\* the headless service "db-endpoints", the default service "db" and the
\* secret "db-application-config" there, none marked for deletion; and an
\* Exists that follows such an Ensure returns (true, false)
C12_StatefulFromEmpty ==
    [][/\ (/\ deploymentType = DeploymentStateful /\ NoResources
           /\ result'.op = "Ensure" /\ result'.err = NoErr)
          => /\ cluster'.workload["statefulset"].present
             /\ cluster'.workload["statefulset"].replicas = Some(1)
             /\ \E i \in DOMAIN result'.staged :
                    result'.staged[i].kind = "statefulset" /\ result'.staged[i].name = "db"
             /\ cluster'.headless.present /\ headlessServiceName(AppName) = "db-endpoints"
             /\ cluster'.service.present
             /\ cluster'.secret.present
             /\ \E i \in DOMAIN result'.staged :
                    /\ result'.staged[i].kind = "secret"
                    /\ result'.staged[i].name = "db-application-config"
             /\ NoneMarked'
       /\ (/\ deploymentType = DeploymentStateful
           /\ result.op = "Ensure" /\ result.err = NoErr /\ NoneMarked
           /\ result'.op = "Exists" /\ result'.faults = {})
          => /\ result'.err = NoErr
             /\ result'.state = [Exists |-> TRUE, Terminating |-> FALSE]]_vars

\* Exists has answered (true, false) for the Stateful application with its
\* four objects there and one replica
C12_Witness ==
    /\ deploymentType = DeploymentStateful
    /\ result.op = "Exists" /\ result.err = NoErr
    /\ result.state = [Exists |-> TRUE, Terminating |-> FALSE]
    /\ Primary.present /\ Primary.replicas = Some(1)
    /\ cluster.headless.present /\ cluster.service.present /\ cluster.secret.present

----------------------------------------------------------------------------
(* Properties of storage resolution *)

DataFilesystem == [StorageName |-> "data", Persistent |-> TRUE, StorageClass |-> "fast"]

\* C13: configureStorage on the single persistent filesystem "data", with
\* neither its class nor the namespace-qualified one among the existing
\* classes, calls the storage class handler once, the claim handler once with
\* a claim of that new class, the volume handler not at all, and the mount
\* handler once, which gives the charm container one mount of the claim at the
\* path computed from index 0
C13_NewClassScenario ==
    (/\ result.op = "configureStorage"
     /\ result.filesystems = <<DataFilesystem>>
     /\ result.storageClasses \cap
            {"fast", QualifiedStorageClassName(Namespace, "fast")} = {})
        => /\ result.out.err = NoErr
           /\ Len(result.out.calls.handleStorageClass) = 1
           /\ Len(result.out.calls.handlePVC) = 1
           /\ result.out.calls.handlePVC[1].class = result.out.calls.handleStorageClass[1]
           /\ result.out.calls.handlePVC[1].class \notin result.storageClasses
           /\ result.out.calls.handleVolume = <<>>
           /\ Len(result.out.calls.handleVolumeMount) = 1
           /\ result.out.mounts =
                  <<[Name |-> result.out.calls.handlePVC[1].name,
                     MountPath |-> GetMountPathForFilesystem(0, AppName, DataFilesystem)]>>

\* configureStorage has resolved "data" into a new class and a claim of it
C13_Witness ==
    /\ result.op = "configureStorage"
    /\ result.filesystems = <<DataFilesystem>>
    /\ result.storageClasses = {"slow"}
    /\ Len(result.out.calls.handleStorageClass) = 1
    /\ Len(result.out.mounts) = 1

----------------------------------------------------------------------------
(* Properties of Delete *)

\* what a batch stages, as (verb, kind, name) triples
StagedTargets(ops) == {<<ops[i].verb, ops[i].kind, ops[i].name>> : i \in DOMAIN ops}

\* C14: for each of the three deployment types, Delete stages the deletion
\* of the type's workload, the default service and the secret, and of the
\* headless service for Stateful only, each once, and runs them as one batch;
\* the claims and storage classes of the cluster are after it what they were
\* before, and so are the workloads of the other kinds
C14_DeleteFootprint ==
    [][(result'.op = "Delete" /\ deploymentType \in KnownDeploymentTypes)
       => /\ StagedTargets(result'.staged) =
                 {<<"delete", KindOf(deploymentType), AppName>>,
                  <<"delete", "service", AppName>>,
                  <<"delete", "secret", secretName>>}
                     \cup IF deploymentType = DeploymentStateful
                          THEN {<<"delete", "service", "db-endpoints">>} ELSE {}
          /\ Len(result'.staged) = Cardinality(StagedTargets(result'.staged))
          /\ result'.ran
          /\ cluster'.claims = cluster.claims
          /\ cluster'.storageClasses = cluster.storageClasses
          /\ \A k \in Kinds \ {KindOf(deploymentType)} :
                 cluster'.workload[k] = cluster.workload[k]
          /\ result'.err = NoErr
                 => /\ ~Primary'.present /\ ~cluster'.service.present
                    /\ ~cluster'.secret.present
                    /\ deploymentType = DeploymentStateful => ~cluster'.headless.present]_vars

\* Delete has removed the workload and left a claim and a storage class
C14_Witness ==
    /\ result.op = "Delete" /\ result.err = NoErr
    /\ deploymentType \in KnownDeploymentTypes /\ ~Primary.present
    /\ cluster.claims # {}
    /\ QualifiedStorageClassName(Namespace, "fast") \in cluster.storageClasses

\* C15: for each of the three deployment types, a Delete none of whose
\* operations is made to fail returns no error whichever of its targets are
\* there, and a Delete never fails with not-found; a Delete that follows a
\* successful Delete changes nothing
C15_DeleteToleratesAbsent ==
    [][(result'.op = "Delete" /\ deploymentType \in KnownDeploymentTypes)
       => /\ ~result'.injected => result'.err = NoErr
          /\ result'.err \in {NoErr, "api"}
          /\ (result.op = "Delete" /\ result.err = NoErr) => cluster' = cluster]_vars

\* a second Delete in a row has succeeded with none of its targets there
C15_Witness ==
    /\ result.op = "Delete" /\ result.again /\ result.err = NoErr
    /\ deploymentType \in KnownDeploymentTypes
    /\ ~Primary.present /\ ~cluster.service.present /\ ~cluster.secret.present

----------------------------------------------------------------------------
(* Properties of the desired replica count *)

\* State returned the empty state and did not list the pods
FailedBeforeListing ==
    ~result.listed /\ result.desired = 0 /\ result.replicas = <<>>

\* C16: State returns the error of a failing Get of the workload, not-found
\* included, without listing the pods; for Stateful and Stateless it returns
\* "missing replicas" and an empty state when the live workload has no replica
\* count, and otherwise reports that count as DesiredReplicas; for Daemon it
\* reports the DaemonSet's desired number scheduled
C16_DesiredReplicas ==
    (result.op = "State" /\ deploymentType \in KnownDeploymentTypes)
        => /\ "workload" \in result.faults
                  => result.err = "api" /\ FailedBeforeListing
           /\ ("workload" \notin result.faults /\ ~Primary.present)
                  => result.err = "NotFound" /\ FailedBeforeListing
           /\ (/\ "workload" \notin result.faults /\ Primary.present
               /\ deploymentType # DeploymentDaemon /\ Primary.replicas = Nil)
                  => /\ result.err # NoErr /\ result.context = "missing replicas"
                     /\ FailedBeforeListing
           /\ (/\ "workload" \notin result.faults /\ "pods" \notin result.faults
               /\ Primary.present
               /\ deploymentType = DeploymentDaemon \/ Primary.replicas # Nil)
                  => result.err = NoErr
           /\ result.err = NoErr
                  => result.desired =
                         IF deploymentType = DeploymentDaemon
                         THEN Primary.scheduled ELSE Primary.replicas[1]

\* State has failed on a Deployment without a replica count
C16_Witness ==
    /\ result.op = "State" /\ deploymentType = DeploymentStateless
    /\ Primary.present /\ Primary.replicas = Nil
    /\ result.faults = {}
    /\ result.context = "missing replicas" /\ result.err # NoErr

\* C17: for a persistent filesystem that asks for class C, the claim
\* filesystemToVolumeInfo returns references C when a class named C exists,
\* else the namespace-qualified name when a class of that name exists, else
\* the new class that is returned with it; a new class is returned in the last
\* case only
C17_StorageClassPrecedence ==
    (result.op = "filesystemToVolumeInfo" /\ result.fs.Persistent)
        => /\ result.out.vol = Nil /\ result.out.pvc # Nil
           /\ result.fs.StorageClass \in result.storageClasses
                  => /\ result.out.pvc[1].class = result.fs.StorageClass
                     /\ result.out.sc = Nil
           /\ (/\ result.fs.StorageClass \notin result.storageClasses
               /\ QualifiedStorageClassName(Namespace, result.fs.StorageClass)
                      \in result.storageClasses)
                  => /\ result.out.pvc[1].class =
                            QualifiedStorageClassName(Namespace, result.fs.StorageClass)
                     /\ result.out.sc = Nil
           /\ result.storageClasses \cap
                  {result.fs.StorageClass,
                   QualifiedStorageClassName(Namespace, result.fs.StorageClass)} = {}
                  <=> result.out.sc # Nil
           /\ result.out.sc # Nil => result.out.pvc[1].class = result.out.sc[1]

\* with the exact and the qualified class both there, the claim has the exact one
C17_Witness ==
    /\ result.op = "filesystemToVolumeInfo" /\ result.fs = DataFilesystem
    /\ {"fast", QualifiedStorageClassName(Namespace, "fast")} \subseteq result.storageClasses
    /\ result.out.pvc[1].class = "fast"
    /\ result.out.sc = Nil

----------------------------------------------------------------------------
(* Properties of UpdatePorts *)

\* the container ports derived from service ports
DerivedContainerPorts(ports) ==
    [i \in 1..Len(ports) |-> [Name |-> ports[i].Name, ContainerPort |-> ports[i].TargetPort]]

\* C18: UpdatePorts stages the default service with the given ports, in their
\* order, and, when asked to update the container ports, after it the live
\* workload of the type with the ports of the containers other than the charm
\* container set to the ports derived from them and the charm container's ports
\* as they were; the one batch is run once, unless a Get failed, and when it
\* succeeds the service and the workload have these ports
C18_UpdatePorts ==
    [][(/\ result'.op = "UpdatePorts" /\ result'.faults = {}
        /\ cluster.service.present
        /\ result'.withContainerPorts => PrimaryPresent(cluster, deploymentType))
       => /\ result'.ran
          /\ Len(result'.staged) = IF result'.withContainerPorts THEN 2 ELSE 1
          /\ result'.staged[1] =
                 ApplyOp("service", AppName, [ports |-> result'.ports])
          /\ result'.withContainerPorts
                 => /\ result'.staged[2].verb = "apply"
                    /\ result'.staged[2].kind = KindOf(deploymentType)
                    /\ result'.staged[2].name = AppName
                    /\ result'.staged[2].obj.ports =
                           Some(DerivedContainerPorts(result'.ports))
                    /\ result'.staged[2].obj.charmPorts = Primary.charmPorts
          /\ result'.err = NoErr
                 => /\ cluster'.service.ports = result'.ports
                    /\ IF result'.withContainerPorts
                       THEN /\ Primary'.ports = Some(DerivedContainerPorts(result'.ports))
                            /\ Primary'.charmPorts = Primary.charmPorts
                       ELSE cluster'.workload = cluster.workload]_vars

\* UpdatePorts has given the service and the containers two ports
C18_Witness ==
    /\ result.op = "UpdatePorts" /\ result.err = NoErr /\ result.withContainerPorts
    /\ Len(result.ports) = 2
    /\ cluster.service.ports = result.ports
    /\ Primary.ports = Some(DerivedContainerPorts(result.ports))
    /\ Primary.charmPorts = Nil

----------------------------------------------------------------------------
(* Properties of the batch of Ensure *)

\* C19: an Ensure writes to the cluster only by the run of its batch: one that
\* returns an error before the run leaves the cluster as it was
C19_WrittenOnlyByBatchRun ==
    [][(result'.op = "Ensure" /\ ~result'.ran) => cluster' = cluster]_vars

----------------------------------------------------------------------------
(* Properties of recreation *)

\* the cluster holds at most one claim for each storage name
OneClaimPerStorage(c) ==
    \A x, y \in c.claims : x.storage = y.storage => x = y

\* C20: an Ensure that follows a successful Delete, in a cluster with one
\* claim for each filesystem that had one, stages for such a filesystem the
\* claim of the name the surviving claim has, and no other
C20_RecreationReusesClaims ==
    [][(/\ result.op = "Delete" /\ result.err = NoErr
        /\ result'.op = "Ensure"
        /\ OneClaimPerStorage(cluster))
       => \A x \in cluster.claims : \A y \in StagedClaims(result'.staged) :
              y.storage = x.storage => y.name = x.name]_vars

----------------------------------------------------------------------------
(* Properties of the routing of claims and mounts *)

\* the names of the claims the persistent filesystems of a configuration get
\* under a prefix
ClaimNamesOf(cfg, prefix) ==
    {pvcNameGetter(volumeName(cfg.Filesystems[i].StorageName), prefix) :
         i \in {j \in DOMAIN cfg.Filesystems : cfg.Filesystems[j].Persistent}}

\* the workload object an Ensure staged
StagedWorkload(ops) == CHOOSE w \in StagedWorkloads(ops) : TRUE

\* C21: an Ensure that gets to stage its workload has, for Stateful, put the
\* claim of every persistent filesystem among the claim templates of the
\* StatefulSet and staged no standalone claim; for Stateless and Daemon it has
\* staged each of them as a standalone claim, given the pod a volume of the
\* claim's name, and left the workload without claim templates
C21_ClaimRouting ==
    [][(/\ result'.op = "Ensure" /\ result'.ran
        /\ deploymentType \in KnownDeploymentTypes)
       => LET names == ClaimNamesOf(result'.cfg[1], result'.prefix)
              w == StagedWorkload(result'.staged)
          IN /\ Cardinality(StagedWorkloads(result'.staged)) = 1
             /\ IF deploymentType = DeploymentStateful
                THEN /\ StagedClaimNames(result'.staged) = {}
                     /\ {t.name : t \in w.claimTemplates} = names
                ELSE /\ StagedClaimNames(result'.staged) = names
                     /\ \A i \in DOMAIN result'.staged :
                            result'.staged[i].kind = "claim"
                                => result'.staged[i].obj.name = result'.staged[i].name
                     /\ names \subseteq w.volumes
                     /\ w.claimTemplates = {}]_vars

\* an Ensure has routed the claim of a persistent filesystem and run its batch
C21_Witness ==
    /\ result.op = "Ensure" /\ result.ran /\ result.err = NoErr
    /\ deploymentType \in KnownDeploymentTypes
    /\ ClaimNamesOf(result.cfg[1], result.prefix) # {}
    /\ StagedClaims(result.staged) # {}

\* the elements of a sequence
Range(seq) == {seq[i] : i \in DOMAIN seq}

\* the mounts one of the sidecars declares of a storage name
DeclaredFor(declared, storageName) ==
    {i \in DOMAIN declared : declared[i].StorageName = storageName}

\* C22: after a successful configureStorage the charm container has one mount
\* for each filesystem, in their order, at the default path of the filesystem;
\* a sidecar has, of the volume of a filesystem, a mount at each path it
\* declares for the storage name and no other, so none when it declares none
C22_MountRouting ==
    (result.op = "configureStorage" /\ result.out.err = NoErr)
        => LET fss == result.filesystems
               out == result.out
           IN /\ Len(out.mounts) = Len(fss)
              /\ \A i \in DOMAIN fss :
                     /\ out.mounts[i].MountPath =
                            GetMountPathForFilesystem(i - 1, AppName, fss[i])
                     /\ out.mounts[i].Name =
                            IF fss[i].Persistent
                            THEN pvcNameGetter(volumeName(fss[i].StorageName),
                                               result.storageUniqueID)
                            ELSE volumeName(fss[i].StorageName)
              /\ DOMAIN out.sidecarMounts = DOMAIN result.containers
              /\ \A n \in DOMAIN result.containers :
                     /\ \A i \in DOMAIN fss :
                            {sm.MountPath : sm \in {x \in Range(out.sidecarMounts[n]) :
                                                      x.Name = out.mounts[i].Name}}
                                = {result.containers[n][k].Path :
                                       k \in DeclaredFor(result.containers[n],
                                                         fss[i].StorageName)}
                     /\ \A sm \in Range(out.sidecarMounts[n]) :
                            \E i \in DOMAIN fss : sm.Name = out.mounts[i].Name
                     /\ Len(out.sidecarMounts[n]) =
                            Cardinality({<<i, k>> \in (DOMAIN fss) \X (DOMAIN result.containers[n]) :
                                            result.containers[n][k].StorageName
                                                = fss[i].StorageName})

\* configureStorage has given one sidecar a mount at its declared path and
\* the other, which declares none, no mount
C22_Witness ==
    /\ result.op = "configureStorage" /\ result.out.err = NoErr
    /\ DOMAIN result.containers = SidecarNames
    /\ Len(result.filesystems) = 2
    /\ result.containers["worker"] = <<>>
    /\ result.out.sidecarMounts["worker"] = <<>>
    /\ Len(result.out.sidecarMounts["web"]) = 1
    /\ result.out.sidecarMounts["web"][1].MountPath = "/srv/data"
    /\ result.out.sidecarMounts["web"][1].MountPath # result.out.mounts[1].MountPath

----------------------------------------------------------------------------
(* Properties of Units *)

\* a mount whose storage name cannot be resolved: the info has none and the
\* name matches neither pattern
Unresolved(m) ==
    /\ m.info = "unnamed"
    /\ ~LegacyPVNameMatches(m.Name) /\ ~PVNameMatches(m.Name)

\* C23: Units does not fail on a mount of an unknown volume or of an
\* unresolved storage name, and the unit has no filesystem entry of such a
\* mount: none of a volume the pod does not have, none without storage name
C23_UnresolvedMountsSkipped ==
    (result.op = "Units" /\ result.faults = {} /\ Len(result.pods) = 1)
        => LET p == result.pods[1]
               mounts == {p.VolumeMounts[i] : i \in DOMAIN p.VolumeMounts}
           IN /\ (\A m \in mounts : m.info # "error" \/ m.Name \notin p.Volumes
                                    \/ m.Name = charmVolumeName)
                     => result.err = NoErr
              /\ result.err = NoErr
                     => \A i \in DOMAIN result.units[1].FilesystemInfo :
                            LET e == result.units[1].FilesystemInfo[i]
                            IN /\ e.Volume \in p.Volumes
                               /\ e.StorageName # ""

----------------------------------------------------------------------------
(* Properties of the volume binding *)

\* C24: filesystemToVolumeInfo returns either a volume or a claim, not both
\* and not neither, and a new storage class only with a claim
C24_VolumeBindingShape ==
    result.op = "filesystemToVolumeInfo"
        => /\ (result.out.vol # Nil) # (result.out.pvc # Nil)
           /\ result.out.sc # Nil => (result.out.pvc # Nil /\ result.out.vol = Nil)
           /\ result.out.vol # Nil => ~result.fs.Persistent
           /\ result.out.pvc # Nil => result.fs.Persistent

\* filesystemToVolumeInfo has returned a claim together with a new class
C24_Witness ==
    /\ result.op = "filesystemToVolumeInfo"
    /\ result.out.pvc # Nil /\ result.out.sc # Nil /\ result.out.vol = Nil

----------------------------------------------------------------------------
(* Properties of concurrent Ensure calls *)

\* a claim's name without the prefix it was derived from
Unprefixed(name) ==
    IF \E fs \in FilesystemParams, n \in 1..MaxPrefixes :
           name = pvcNameGetter(volumeName(fs.StorageName), RandomPrefix(n))
    THEN LET fs == CHOOSE f \in FilesystemParams :
                       \E n \in 1..MaxPrefixes :
                           name = pvcNameGetter(volumeName(f.StorageName), RandomPrefix(n))
         IN pvcNameGetter(volumeName(fs.StorageName), "")
    ELSE name

UnprefixedClaims(claims) == {[x EXCEPT !.name = Unprefixed(@)] : x \in claims}

\* a workload without its prefix and the names derived from it
UnprefixedWorkload(w) ==
    [w EXCEPT !.prefix = "",
              !.volumes = {Unprefixed(v) : v \in @},
              !.claimTemplates = UnprefixedClaims(@),
              !.mounts = [i \in DOMAIN @ |-> [@[i] EXCEPT !.Name = Unprefixed(@)]]]

\* whether two clusters hold the same objects but for the prefix-derived names
SameButForPrefix(c, d) ==
    /\ c.secret = d.secret /\ c.service = d.service /\ c.headless = d.headless
    /\ c.storageClasses = d.storageClasses
    /\ \A k \in Kinds : UnprefixedWorkload(c.workload[k]) = UnprefixedWorkload(d.workload[k])
    /\ UnprefixedClaims(c.claims) = UnprefixedClaims(d.claims)
    /\ Cardinality(c.claims) = Cardinality(d.claims)

\* the cluster after one call of Ensure that runs alone and succeeds
AfterEnsure(c, dt, cfg, n) ==
    LET plan == EnsurePlan(c, dt, cfg, "none", n)
    IN RunOps(plan.cluster, plan.ops, Len(plan.ops))

\* the cluster after two calls of which the second begins when the first has
\* returned
Serialized(c, dt, cfg) == AfterEnsure(AfterEnsure(c, dt, cfg, 0), dt, cfg, 1)

BothDone == \A p \in Callers : result.calls[p].pc = "done" /\ result.calls[p].err = NoErr

\* C25: two calls of Ensure with one configuration for an application that
\* does not exist yet, however they interleave, end in the objects that the
\* two calls end in when the second begins after the first has returned, but
\* for the names derived from the prefix; a second call that begins after the
\* first has returned uses the first's prefix
C25_ConcurrentEnsure ==
    BothDone
        => /\ SameButForPrefix(cluster,
                               Serialized(result.before, deploymentType, result.cfg))
           /\ \A p, q \in Callers :
                  result.calls[q].serial => result.calls[q].prefix = result.calls[p].prefix

----------------------------------------------------------------------------
(* Properties of the cached API endpoints *)

\* the processed host-port list of a call, as strings
ProcessedHosts ==
    HostPortsToStrings(processHostPorts(result.hostPorts, result.addrConnectedTo,
                                        result.preferIPv6))

\* C26: PrepareEndpointsForCaching calls the resolver exactly when the
\* processed list is not empty and either no host names are cached or the list
\* is not, element by element, the cached host names; when it does not call it,
\* it returns nothing and reports no change
C26_UnchangedHostnames ==
    result.op = "PrepareEndpointsForCaching"
        => /\ result.out.resolved
                  <=> /\ ProcessedHosts # <<>>
                      /\ \/ result.endpoint.Hostnames = <<>>
                         \/ ProcessedHosts # result.endpoint.Hostnames
           /\ ~result.out.resolved
                  => /\ result.out.addresses = <<>> /\ result.out.hostnames = <<>>
                     /\ ~result.out.haveChanged

\* PrepareEndpointsForCaching has found the two cached host names as they were
C26_Witness ==
    /\ result.op = "PrepareEndpointsForCaching"
    /\ Len(result.endpoint.Hostnames) = 2
    /\ ProcessedHosts = result.endpoint.Hostnames
    /\ ~result.out.resolved /\ ~result.out.haveChanged

----------------------------------------------------------------------------
(* Properties of the headless service *)

\* C27: an Ensure of a Stateful application that gets past the headless
\* service leaves it in the cluster as Ensure builds it, publishing addresses
\* that are not ready, whether or not it was there and however it was; an
\* Ensure of a Stateless or Daemon application leaves the headless service,
\* there or not, as it was
C27_HeadlessService ==
    [][result'.op = "Ensure"
       => /\ (deploymentType = DeploymentStateful /\ result'.ran)
                 => /\ cluster'.headless.present
                    /\ cluster'.headless.publishNotReady
          /\ deploymentType # DeploymentStateful
                 => cluster'.headless = cluster.headless]_vars

\* a repeated Ensure of a Stateful application has left the headless service
\* as it builds it
C27_Witness ==
    /\ result.op = "Ensure" /\ result.again /\ result.err = NoErr
    /\ deploymentType = DeploymentStateful
    /\ cluster.headless.present /\ cluster.headless.publishNotReady

----------------------------------------------------------------------------
(* Properties of UpdateControllerAddresses *)

\* what PrepareEndpointsForCaching answers in a call of
\* UpdateControllerAddresses
Prepared ==
    PrepareEndpointsForCaching(
        [Hostnames |-> result.before.legacy.Hostnames,
         Addresses |-> result.before.legacy.Addresses],
        result.hostPorts, result.addrConnectedTo, FALSE, result.dns)

\* the name of the controller a call is about
ControllerOf(params, stores) ==
    IF params.ControllerName # "" THEN params.ControllerName
    ELSE CHOOSE n \in DOMAIN stores.controllers :
             stores.controllers[n].ControllerUUID = params.ControllerUUID

\* C28: UpdateControllerAddresses returns an error and leaves both stores as
\* they were when it is given neither name nor UUID, when it is given only a
\* UUID that no stored controller has, and when PrepareEndpointsForCaching
\* reports no change; it writes only when the addresses changed, and when it
\* returns without error both stores hold the new addresses and host names
C28_ErrorsLeaveStores ==
    result.op = "UpdateControllerAddresses"
        => /\ (result.params.ControllerName = "" /\ result.params.ControllerUUID = "")
                  => /\ result.err = "expected either controller name or UUID"
                     /\ result.stores = result.before
           /\ (/\ result.params.ControllerName = "" /\ result.params.ControllerUUID # ""
               /\ result.fault = "none"
               /\ \A n \in DOMAIN result.before.controllers :
                      result.before.controllers[n].ControllerUUID
                          # result.params.ControllerUUID)
                  => /\ result.err = "NotFound"
                     /\ result.stores = result.before
           /\ result.err = cachedAddressesExistErr
                  => /\ ~Prepared.haveChanged
                     /\ result.stores = result.before
           /\ result.stores # result.before => Prepared.haveChanged
           /\ result.err = NoErr
                  => /\ Prepared.haveChanged
                     /\ result.stores.legacy.Addresses = Prepared.addresses
                     /\ result.stores.legacy.Hostnames = Prepared.hostnames
                     /\ LET name == ControllerOf(result.params, result.before)
                        IN /\ name \in DOMAIN result.stores.controllers
                           /\ result.stores.controllers[name].APIEndpoints
                                  = Prepared.addresses
                           /\ result.stores.controllers[name].Servers
                                  = Prepared.hostnames

\* UpdateControllerAddresses has refused to write because nothing changed
C28_Witness ==
    /\ result.op = "UpdateControllerAddresses"
    /\ result.err = cachedAddressesExistErr
    /\ result.params.ControllerName = "" /\ result.params.ControllerUUID = "uuid-1"
    /\ result.before.legacy.Addresses # <<>>
    /\ result.stores = result.before

----------------------------------------------------------------------------
(* Properties of newAPIFromStore *)

\* where the attempts start: both, the second with providerConnectDelay, when
\* addresses are cached; the second alone and without delay when none are
AttemptsStarted ==
    result.pc = "trying"
        => IF result.cached
           THEN /\ result.info.pc # "idle" /\ result.config.pc # "idle"
                /\ result.delay = providerConnectDelay
                /\ (result.config.opened => result.elapsed)
           ELSE /\ result.info.pc = "idle" /\ result.config.pc # "idle"
                /\ result.delay = 0

\* the first attempt has won while the delay has not passed and the second
\* attempt has returned
WonBeforeDelay ==
    result.won = "info" /\ ~result.elapsed /\ result.config.pc = "done"

----------------------------------------------------------------------------
(* Properties of the error of newAPIFromStore *)

\* an error of the cached-info attempt, a not-found error, any other error
FromCachedInfo(e) == e.wrapped
IsNotFound(e) == ~e.wrapped /\ e.notFound
Outranks(e, f) ==
    \/ ~FromCachedInfo(e) /\ ~IsNotFound(e) /\ (FromCachedInfo(f) \/ IsNotFound(f))
    \/ IsNotFound(e) /\ FromCachedInfo(f)

\* C30: with every attempt failed, the error returned is the earliest recorded
\* one that no other recorded error outranks, where any other error outranks a
\* not-found error and a not-found error outranks an error of the cached-info
\* attempt; an error of the cached-info attempt is returned without its wrapper
C30_ErrorSelection ==
    result.op = "newAPIFromStore"
        => \E i \in 1..Len(result.errs) :
               /\ \A j \in 1..Len(result.errs) : ~Outranks(result.errs[j], result.errs[i])
               /\ \A j \in 1..(i - 1) : Outranks(result.errs[i], result.errs[j])
               /\ result.err = [result.errs[i] EXCEPT !.wrapped = FALSE]
               /\ ~result.err.wrapped

\* two errors of the cached-info attempt were recorded and the earlier one is
\* returned, without its wrapper
C30_Witness ==
    /\ result.op = "newAPIFromStore"
    /\ Len(result.errs) = 2
    /\ result.errs[1].wrapped /\ result.errs[2].wrapped
    /\ result.errs[1].msg # result.errs[2].msg
    /\ result.err = [result.errs[1] EXCEPT !.wrapped = FALSE]

\* a not-found error was recorded before another error, and the later one is
\* returned
C30_WitnessOutranked ==
    /\ result.op = "newAPIFromStore"
    /\ Len(result.errs) = 2
    /\ IsNotFound(result.errs[1])
    /\ ~result.errs[2].wrapped /\ ~result.errs[2].notFound
    /\ result.err = result.errs[2]

----------------------------------------------------------------------------
(* Properties of getRemoteConfig *)

\* the spec has a credential whose attributes name all three of client
\* certificate, client key and server certificate
HasAllCredAttrs(spec) ==
    /\ spec.Credential # Nil
    /\ CredAttrs \subseteq DOMAIN spec.Credential[1]

\* C31: getRemoteConfig returns the NotValid "credentials" error and no
\* configuration when the spec has no credential or its attributes lack one
\* of client certificate, client key and server certificate, and otherwise a
\* configuration that carries the three of them and the endpoint
C31_RemoteCredentials ==
    result.op = "getRemoteConfig"
        => IF HasAllCredAttrs(result.spec)
           THEN /\ result.err = NoErr
                /\ result.config # Nil
                /\ result.config[1].Host = result.spec.Endpoint
                /\ result.config[1].Cert.CertPEM
                       = result.spec.Credential[1][credAttrClientCert]
                /\ result.config[1].Cert.KeyPEM
                       = result.spec.Credential[1][credAttrClientKey]
                /\ result.config[1].ServerPEMCert
                       = result.spec.Credential[1][credAttrServerCert]
           ELSE /\ result.err = "NotValid" /\ result.what = "credentials"
                /\ result.config = Nil

\* a credential with the client certificate and the server certificate but no
\* client key was refused
C31_Witness ==
    /\ result.op = "getRemoteConfig"
    /\ result.spec.Credential # Nil
    /\ DOMAIN result.spec.Credential[1] = {credAttrClientCert, credAttrServerCert}
    /\ result.err = "NotValid" /\ result.config = Nil

----------------------------------------------------------------------------
(* Properties of Ensure on an unknown deployment type *)

\* the cluster is as it was, or the default Service, absent before, is there
\* now and nothing else differs
OnlyDefaultServiceCreated ==
    \/ cluster' = cluster
    \/ /\ ~cluster.service.present
       /\ cluster'.service.present
       /\ cluster' = [cluster EXCEPT !.service = cluster'.service]

\* the batch a call of Ensure on an unknown type leaves behind unrun: nothing
\* but the Secret, none of whose objects is in the cluster afterwards
BatchLeftUnrun ==
    /\ ~result'.ran
    /\ cluster'.secret = cluster.secret
    /\ cluster'.workload = cluster.workload
    /\ cluster'.claims = cluster.claims
    /\ cluster'.storageClasses = cluster.storageClasses
    /\ OnlyDefaultServiceCreated

EnsureOnUnknownType ==
    deploymentType \notin KnownDeploymentTypes /\ result'.op = "Ensure"

----------------------------------------------------------------------------
(* Properties of the staging order of Ensure *)

\* the place of a storage name among the filesystems of a configuration
DeclaredAt(filesystems, storageName) ==
    CHOOSE k \in DOMAIN filesystems : filesystems[k].StorageName = storageName

----------------------------------------------------------------------------
(* Properties of the failures of UpdatePorts and UpdateService *)

\* the call about to be reported rewrites container ports
RewritesContainerPorts ==
    result'.op = "UpdateService" \/ result'.withContainerPorts

\* what keeps the call from having the default Service, or the live workload it
\* rewrites
CannotStage ==
    \/ "service" \in result'.faults
    \/ ~cluster.service.present
    \/ /\ RewritesContainerPorts
       /\ \/ "workload" \in result'.faults
          \/ deploymentType \notin KnownDeploymentTypes
          \/ ~PrimaryPresent(cluster, deploymentType)

\* C34: UpdateService, and UpdatePorts when asked to update the container
\* ports, return an error without running the batch, and leave the cluster as
\* it was, when the default Service or the live workload cannot be had or the
\* deployment type is unknown; otherwise they run a batch of the Service and
\* the workload with the rewritten container ports. UpdatePorts not asked to
\* update the container ports stages the Service alone and leaves the
\* workloads as they are
C34_PortUpdateFailures ==
    [][result'.op \in {"UpdatePorts", "UpdateService"}
           => /\ CannotStage
                     => /\ result'.err # NoErr
                        /\ ~result'.ran
                        /\ cluster' = cluster
              /\ ~CannotStage
                     => /\ result'.ran
                        /\ Len(result'.staged) = IF RewritesContainerPorts THEN 2 ELSE 1
                        /\ result'.staged[1].kind = "service"
                        /\ RewritesContainerPorts
                               => /\ result'.staged[2].kind = KindOf(deploymentType)
                                  /\ result'.staged[2].obj.ports =
                                         Some(DerivedContainerPorts(result'.ports))
                        /\ (result'.err = NoErr /\ RewritesContainerPorts)
                               => cluster'.workload[KindOf(deploymentType)].ports =
                                      Some(DerivedContainerPorts(result'.ports))
              /\ ~RewritesContainerPorts => cluster'.workload = cluster.workload
              /\ result'.op = "UpdateService" => result'.withContainerPorts]_vars

\* UpdateService could not fetch the live workload and has left the ports of a
\* Service that is there alone
C34_Witness ==
    /\ result.op = "UpdateService"
    /\ "workload" \in result.faults /\ "service" \notin result.faults
    /\ result.err # NoErr /\ ~result.ran
    /\ cluster.service.present
    /\ result.ports # <<>>
    /\ cluster.service.ports # result.ports

----------------------------------------------------------------------------
(* Properties of the pagination of State *)

\* a page that reports no remaining items
ReportsNone(page) == page.remaining = Nil \/ page.remaining = Some(0)

\* the server, asked from the token on, reports no remaining items within n
\* pages
RECURSIVE StopsWithin(_, _, _)
StopsWithin(listing, next, n) ==
    /\ n > 0
    /\ \/ ReportsNone(ListPods(listing, next))
       \/ StopsWithin(listing, ListPods(listing, next).continue, n - 1)

\* the list calls made so far: the first without token, each further one with
\* the token of the page before it, which reported items remaining; no call
\* follows a page that reported none
RequestsFollowPages ==
    /\ Len(result.requests) \in {Len(result.pages), Len(result.pages) + 1}
    /\ result.requests # <<>> => result.requests[1] = ""
    /\ \A k \in 1..Len(result.pages) :
           /\ result.pages[k] = ListPods(result.listing, result.requests[k])
           /\ k < Len(result.requests)
                  => /\ ~ReportsNone(result.pages[k])
                     /\ result.requests[k + 1] = result.pages[k].continue
           /\ (k = Len(result.requests) /\ ~ReportsNone(result.pages[k]))
                  => result.pc = "list" /\ result.next = result.pages[k].continue
           /\ ReportsNone(result.pages[k])
                  => result.pc = "done" /\ k = Len(result.requests)

\* what State returns: on an error nothing of what it gathered
StateReturns ==
    result.pc = "done"
        => IF result.err # NoErr
           THEN result.replicas = <<>> /\ result.desired = 0
           ELSE /\ result.pages # <<>>
                /\ ReportsNone(result.pages[Len(result.pages)])
                /\ Len(result.replicas) = Len(result.acc)

\* C35: State asks for a further page, with the token of the page it has, just
\* when that page reports a remaining-item count that is there and not zero,
\* and stops at a page that reports none whatever its token; a list call that
\* fails ends State with the error and no partial result; and State returns
\* whenever the server gets to report no remaining items (here, within the
\* calls the model allows) or a call fails
C35_Pagination ==
    /\ [](RequestsFollowPages /\ StateReturns)
    /\ (/\ result.pc = "list" /\ result.requests = <<>>
        /\ \/ result.failAt # 0
           \/ StopsWithin(result.listing, "", MaxCalls))
           ~> (result.pc = "done")

\* State has stopped at the second page, which reported no remaining items
\* and carried a token, after a first page that reported some
C35_Witness ==
    /\ result.pc = "done" /\ result.err = NoErr
    /\ Len(result.pages) = 2
    /\ result.pages[1].remaining # Nil /\ result.pages[1].remaining # Some(0)
    /\ result.pages[2].remaining = Some(0) /\ result.pages[2].continue # ""
    /\ result.requests = <<"", result.pages[1].continue>>

----------------------------------------------------------------------------
(* Properties of the terminating status *)

\* C36: Exists reports Terminating only together with Exists, and only when
\* one of the primary workload, the secret and the default service is there
\* and marked for deletion: a primary workload that is there and not marked
\* does not make it report Terminating
C36_NoForcedTermination ==
    result.op = "Exists"
        => /\ result.state.Terminating => result.state.Exists
           /\ deploymentType \notin KnownDeploymentTypes => result.state = NoState
           /\ deploymentType \in KnownDeploymentTypes
                  => /\ result.state.Terminating => \E i \in 1..3 : Marked(i)
                     /\ (\A i \in 1..3 :
                             CheckedObject(i).present => ~CheckedObject(i).deleting)
                            => ~result.state.Terminating

\* Exists has found the primary workload, the secret and the service, none of
\* them marked, and reported the application as not terminating
C36_Witness ==
    /\ result.op = "Exists" /\ result.err = NoErr
    /\ deploymentType \in KnownDeploymentTypes
    /\ \A i \in 1..3 : CheckedObject(i).present /\ ~CheckedObject(i).deleting
    /\ result.state = [Exists |-> TRUE, Terminating |-> FALSE]

----------------------------------------------------------------------------
(* Properties of Ensure followed by Delete *)

Succeeded(op) == result.op = op /\ result.err = NoErr

\* a Delete that succeeds right after an Ensure that succeeded
DeleteAfterEnsure ==
    (Succeeded("Ensure") /\ result'.op = "Delete" /\ result'.err = NoErr)
        => /\ cluster'.claims = cluster.claims
           /\ cluster'.storageClasses = cluster.storageClasses
           /\ \A x \in StagedClaimNames(result.staged) :
                  \E y \in cluster'.claims : y.name = x
           /\ \A i \in DOMAIN result.staged :
                  result.staged[i].kind = "storageclass"
                      => result.staged[i].name \in cluster'.storageClasses
           /\ deploymentType = DeploymentStateful => ~cluster'.headless.present

\* an Exists whose Gets do not fail, right after a Delete that succeeded
ExistsAfterDelete ==
    (Succeeded("Delete") /\ result'.op = "Exists" /\ result'.faults = {})
        => /\ result'.err = NoErr
           /\ result'.state = [Exists |-> FALSE, Terminating |-> FALSE]
           /\ deploymentType = DeploymentStateful => ~cluster'.headless.present

\* C37: for each of the three deployment types, a Delete that succeeds right
\* after an Ensure that succeeded leaves the claims and the storage classes
\* the Ensure left, and no headless service for Stateful; and an Exists that
\* follows a Delete that succeeded, and whose Gets do not fail, returns
\* (false, false)
C37_EnsureDeleteRoundTrip ==
    [][(deploymentType \in KnownDeploymentTypes)
       => (DeleteAfterEnsure /\ ExistsAfterDelete)]_vars

\* Exists has found nothing of an application that was set up and taken down,
\* whose claim and storage class are still there
C37_Witness ==
    /\ result.op = "Exists" /\ result.err = NoErr /\ result.faults = {}
    /\ deploymentType \in KnownDeploymentTypes
    /\ result.state = [Exists |-> FALSE, Terminating |-> FALSE]
    /\ ~Primary.present /\ ~cluster.secret.present /\ ~cluster.service.present
    /\ cluster.claims # {}
    /\ QualifiedStorageClassName(Namespace, "fast") \in cluster.storageClasses

----------------------------------------------------------------------------
(* Properties of the resolution of the storage-unique prefix *)

\* the Ensure about to be reported got as far as reading the live workload:
\* none of the calls before the read was made to fail
ReadsLiveWorkload ==
    \A f \in result'.faults :
       /\ configureDefaultService(cluster, f).err = NoErr
       /\ f # "storageclass.list"
       /\ deploymentType = DeploymentStateful => f # "headless.apply"

\* what the prefix is resolved from, given the live workload the read finds
PrefixDecision(live) ==
    /\ result'.generated <=> (~live.present \/ live.prefix = "")
    /\ (result'.generated /\ "randomPrefix" \notin result'.faults)
           => /\ result'.prefix = RandomPrefix(prefixCount + 1)
              /\ prefixCount' = prefixCount + 1
              /\ \A w \in StagedWorkloads(result'.staged) : w.prefix = result'.prefix
              /\ StagedWorkloads(result'.staged) # {}
    /\ ~result'.generated
           => /\ result'.prefix = live.prefix
              /\ prefixCount' = prefixCount
              /\ \A w \in StagedWorkloads(result'.staged) : w.prefix = live.prefix
              /\ StagedWorkloads(result'.staged) # {}

\* a read that fails with an error other than not-found
FailedRead(live) ==
    /\ result'.err = "api"
    /\ ~result'.generated /\ prefixCount' = prefixCount
    /\ ~result'.ran
    /\ StagedWorkloads(result'.staged) = {}
    /\ cluster'.workload = cluster.workload /\ cluster'.secret = cluster.secret

\* C38: an Ensure that reads the live workload of its type generates a fresh
\* prefix exactly when the workload is not found or is found without a
\* non-empty prefix annotation, and otherwise takes the annotation; the
\* workload it stages carries the prefix; when the read fails with an error
\* other than not-found Ensure returns that error, generates no prefix and
\* does not run its batch
C38_PrefixDecision ==
    [][(result'.op = "Ensure" /\ deploymentType \in KnownDeploymentTypes)
       => IF ~ReadsLiveWorkload
          THEN ~result'.generated /\ prefixCount' = prefixCount
          ELSE IF "workload.get" \in result'.faults
          THEN FailedRead(cluster.workload[KindOf(deploymentType)])
          ELSE PrefixDecision(cluster.workload[KindOf(deploymentType)])]_vars

\* Ensure has found a workload without prefix annotation, generated a prefix
\* and written it to the workload
C38_Witness ==
    /\ result.op = "Ensure" /\ result.err = NoErr
    /\ result.found /\ result.generated
    /\ deploymentType \in KnownDeploymentTypes
    /\ result.prefix = RandomPrefix(1)
    /\ Primary.prefix = RandomPrefix(1)

====
